---- MODULE Spec2Model ----
(***************************************************************************)
(* Model of the agency-management allocation engine:                       *)
(*   - ProjectAdmin.save_allocations_view (agency/admin.py) and its        *)
(*     replacement in admin_allocation_fix.py: replace-all save of a       *)
(*     project's ProjectAllocation rows, statement by statement under      *)
(*     Django's autocommit (the source opens no transaction);              *)
(*   - calculate_monthly_operating_costs, revenue_chart_data and the       *)
(*     annual revenue of dashboard (agency/views.py);                      *)
(*   - the utilization / health classification of pm_dashboard and         *)
(*     ProjectAdmin.allocation_status;                                     *)
(*   - ProjectAdmin.remove_member_view, and the views that let a           *)
(*     superuser look at the application as another user, with             *)
(*     employee_dashboard's upcoming allocations.                          *)
(* Amounts are exact rationals <<numerator, denominator>>; dates are       *)
(* <<year, month, day>> of the Gregorian calendar.                         *)
(***************************************************************************)
EXTENDS Integers, Sequences, FiniteSets, Bags, TLC

VARIABLES
    variant,        \* which save_allocations_view is deployed: "admin" or "fix"
    profiles,       \* UserProfile table
    total_hours,    \* Project.total_hours of each project
    allocs,         \* ProjectAllocation table: a bag of rows
    req,            \* one save request per handler thread
    seen,           \* what get_allocation_data_view last read
    pmview,         \* the last projects_data entry pm_dashboard computed
    status_cell,    \* the last cell ProjectAdmin.allocation_status rendered
    cost_model,     \* whether the Cost table can be queried (schema migrated)
    costs,          \* Cost table, in the order the query returns it
    expenses,       \* legacy Expense table
    contractor_expenses, \* legacy ContractorExpense table
    costcall,       \* the last call of calculate_monthly_operating_costs
    projects,       \* Project table (revenue fields)
    ledger,         \* MonthlyRevenue table
    chart,          \* the last response of revenue_chart_data
    annual,         \* the last annual revenue figures of dashboard
    dash,           \* the last outcome of dashboard
    chart_exc,      \* the last response of revenue_chart_data after a raise
    removal,        \* the last outcome of ProjectAdmin.remove_member_view
    user,           \* request.user of the session
    session,        \* request.session: <<>> or <<viewing_as_user>>
    last,           \* the last response of a user-switching view
    emp             \* the last outcome of employee_dashboard

saveVars == <<variant, profiles, total_hours, allocs, req, seen>>
viewVars == <<pmview, status_cell>>
costVars == <<cost_model, costs, expenses, contractor_expenses, costcall>>
revVars == <<projects, ledger, chart, annual, dash, chart_exc>>
userVars == <<removal, user, session, last, emp>>
vars == <<variant, profiles, total_hours, allocs, req, seen, pmview, status_cell,
          cost_model, costs, expenses, contractor_expenses, costcall,
          projects, ledger, chart, annual, dash, chart_exc,
          removal, user, session, last, emp>>

-----------------------------------------------------------------------------
(* Bounds *)

MaxBatchLen == 2        \* entries in one save request
MaxRuns == 2            \* times the same request is submitted in a row
MaxAllocRows == 2       \* rows of the ProjectAllocation table the views read
MaxCostRows == 2        \* rows of the Cost table
MaxLegacyRows == 1      \* rows of each legacy table
MaxProjects == 2        \* rows of the Project table
MaxLedgerRows == 2      \* rows of the MonthlyRevenue table

-----------------------------------------------------------------------------
(* Exact rational arithmetic: Decimal and float amounts *)

Abs(n) == IF n < 0 THEN -n ELSE n

RECURSIVE Gcd(_, _)
Gcd(a, b) == IF b = 0 THEN a ELSE Gcd(b, a % b)

Norm(n, d) ==
    LET s == IF d < 0 THEN -1 ELSE 1
        g == Gcd(Abs(n), Abs(d))
    IN  IF n = 0 THEN <<0, 1>> ELSE <<(s * n) \div g, (s * d) \div g>>

Rat(n) == <<n, 1>>
RAdd(a, b) == Norm(a[1] * b[2] + b[1] * a[2], a[2] * b[2])
RSub(a, b) == Norm(a[1] * b[2] - b[1] * a[2], a[2] * b[2])
RMul(a, b) ==
    LET g1 == Gcd(Abs(a[1]), Abs(b[2]))
        g2 == Gcd(Abs(b[1]), Abs(a[2]))
    IN  Norm((a[1] \div g1) * (b[1] \div g2), (a[2] \div g2) * (b[2] \div g1))
RDiv(a, b) == Norm(a[1] * b[2], a[2] * b[1])
RLeq(a, b) == a[1] * b[2] <= b[1] * a[2]
RLt(a, b) == a[1] * b[2] < b[1] * a[2]

RECURSIVE RSumSeq(_)
RSumSeq(s) == IF s = <<>> THEN Rat(0) ELSE RAdd(Head(s), RSumSeq(Tail(s)))

RECURSIVE SeqsUpTo(_, _)
SeqsUpTo(S, n) ==
    IF n = 0 THEN {<<>>}
    ELSE LET shorter == SeqsUpTo(S, n - 1)
         IN  shorter \cup {Append(s, x) : s \in shorter, x \in S}

-----------------------------------------------------------------------------
(* JSON values of a request body *)

JInt(n) == [k |-> "int", v |-> n]
JBad == [k |-> "bad", v |-> 0]       \* a value int()/float() cannot parse
JAbsent == [k |-> "absent", v |-> 0]  \* the key is not in the object

\* int(alloc.get(key, 0)) and float(alloc.get(key, 0)): the number, or a raise
Raises(j) == j.k = "bad"
Parse(j) == IF j.k = "int" THEN j.v ELSE 0

-----------------------------------------------------------------------------
(* Dates *)

NoDate == <<0, 0, 0>>      \* a null DateField

IsLeap(y) == (y % 4 = 0 /\ y % 100 # 0) \/ y % 400 = 0

\* calendar.monthrange(year, month)[1]
DaysInMonth(y, m) ==
    IF m = 2 THEN (IF IsLeap(y) THEN 29 ELSE 28)
    ELSE IF m \in {4, 6, 9, 11} THEN 30 ELSE 31

DateLeq(a, b) ==
    \/ a[1] < b[1]
    \/ a[1] = b[1] /\ a[2] < b[2]
    \/ a[1] = b[1] /\ a[2] = b[2] /\ a[3] <= b[3]

DateMax(a, b) == IF DateLeq(a, b) THEN b ELSE a
\* DateMinSecond is the faulty min that always takes the period's end
DateMinSecond(a, b) == b
DateMin(a, b) == IF DateLeq(a, b) THEN a ELSE b

-----------------------------------------------------------------------------
(* Tables the save reads *)

Projects == {1, 2}
Handlers == {1, 2}

Profile(id, company, rate, status, start, end, salary) ==
    [id |-> id, company |-> company, hourly_rate |-> rate, status |-> status,
     start_date |-> start, end_date |-> end, monthly_salary_cost |-> salary]

\* Members 1 and 2 belong to the projects' company; no profile has id 9.
BaseProfiles ==
    { Profile(1, 1, 100, "full_time", NoDate, NoDate, 5000),
      Profile(2, 1, 80, "part_time", NoDate, NoDate, 3000),
      Profile(3, 2, 90, "full_time", NoDate, NoDate, 4000) }

KnownMember(id) == \E u \in profiles : u.id = id
MemberOf(id) == CHOOSE u \in profiles : u.id = id

AllocRow(p, m, y, mo, w, h, rate, pm) ==
    [project |-> p, user_profile |-> m, year |-> y, month |-> mo, week |-> w,
     allocated_hours |-> h, hourly_rate |-> rate, is_project_manager |-> pm]

NoRow == AllocRow(0, 0, 0, 0, 0, 0, 0, FALSE)

\* ProjectAllocation.objects.filter(project=project)
ProjRows(table, p) ==
    [r \in {x \in DOMAIN table : x.project = p} |-> table[r]]

\* ProjectAllocation.objects.filter(project=project).delete(); DeleteProjectKeep
\* is the faulty save that never clears the existing rows, DeleteProjectAll
\* the faulty one that deletes without the project filter
DeleteProjectKeep(table, p) == table

DeleteProjectAll(table, p) == EmptyBag

DeleteProject(table, p) ==
    [r \in {x \in DOMAIN table : x.project # p} |-> table[r]]

InsertRow(table, r) == table (+) SetToBag({r})

-----------------------------------------------------------------------------
(* Request bodies *)

Entry(m, y, mo, w, h, pm) ==
    [member_id |-> m, year |-> y, month |-> mo, week |-> w, hours |-> h,
     is_pm |-> pm]

EKnown1 == Entry(1, JInt(2024), JInt(1), JAbsent, JInt(10), "absent")
EKnown2 == Entry(2, JInt(2024), JInt(1), JInt(2), JInt(5), "absent")
EUnknown == Entry(9, JInt(2024), JInt(1), JAbsent, JInt(5), "absent")
EPm == Entry(1, JAbsent, JAbsent, JAbsent, JAbsent, "true")
EBadYear == Entry(2, JBad, JInt(1), JAbsent, JInt(5), "absent")
EPm2 == Entry(2, JAbsent, JAbsent, JAbsent, JAbsent, "true")
EBadWeek == Entry(1, JInt(2024), JInt(2), JBad, JInt(5), "absent")
\* member 3 is a UserProfile of another company
EForeign == Entry(3, JInt(2024), JInt(1), JAbsent, JInt(4), "absent")

Entries == {EKnown1, EKnown2, EUnknown, EPm, EBadYear, EPm2, EBadWeek}

\* Bodies that name two project managers
PmBatches ==
    { <<EPm2, EPm, EKnown1>>, <<EPm, EPm2, EKnown1>>, <<EPm2, EKnown1, EKnown2>> }

Batches ==
    SeqsUpTo(Entries, MaxBatchLen) \cup PmBatches
        \cup {<<EForeign>>, <<EKnown1, EForeign>>}

\* The batches two concurrent saves choose from
ConcBatches == { <<EKnown1>>, <<EKnown2, EKnown1>>, <<EKnown2, EUnknown>> }

-----------------------------------------------------------------------------
(* save_allocations_view, agency/admin.py *)

\* FindPmLast is the faulty first pass without the break: the last entry wins
RECURSIVE FindPmLast(_)
FindPmLast(batch) ==
    IF batch = <<>> THEN 0
    ELSE IF FindPmLast(Tail(batch)) # 0 THEN FindPmLast(Tail(batch))
    ELSE IF Head(batch).is_pm = "true" THEN Head(batch).member_id
    ELSE 0

\* First pass: member_id of the first entry with a true is_pm (0 for None)
RECURSIVE FindPm(_)
FindPm(batch) ==
    IF batch = <<>> THEN 0
    ELSE IF Head(batch).is_pm = "true" THEN Head(batch).member_id
    ELSE FindPm(Tail(batch))

WeekTruthy(e) == e.week.k = "bad" \/ (e.week.k = "int" /\ e.week.v # 0)

\* One iteration of the second pass: what it does with entry e.
\*   "skip"   nothing is created and nothing is printed
\*   "row"    allocation.save() inserts row
\*   "rowerr" the inner except prints the error and continues
\*   "fatal"  int()/float() raises to the outer except
AdminItem(p, e, pm) ==
    IF e.is_pm # "absent" THEN [kind |-> "skip", row |-> NoRow]
    ELSE IF Raises(e.year) \/ Raises(e.month) \/ Raises(e.hours)
    THEN [kind |-> "fatal", row |-> NoRow]
    ELSE IF e.member_id = 0 \/ Parse(e.year) = 0 \/ Parse(e.month) = 0
    THEN [kind |-> "skip", row |-> NoRow]
    ELSE IF ~KnownMember(e.member_id) THEN [kind |-> "rowerr", row |-> NoRow]
    ELSE IF WeekTruthy(e) /\ Raises(e.week) THEN [kind |-> "rowerr", row |-> NoRow]
    ELSE [kind |-> "row",
          row |-> AllocRow(p, e.member_id, Parse(e.year), Parse(e.month),
                           IF WeekTruthy(e) THEN Parse(e.week) ELSE 0,
                           Parse(e.hours), MemberOf(e.member_id).hourly_rate,
                           e.member_id = pm)]

-----------------------------------------------------------------------------
(* save_allocations_view, admin_allocation_fix.py *)

FixKey(e) == [member_id |-> e.member_id, year |-> Parse(e.year),
              month |-> Parse(e.month)]

RECURSIVE AddTotal(_, _, _)
AddTotal(totals, key, h) ==
    IF totals = <<>> THEN <<[key |-> key, hours |-> h]>>
    ELSE IF Head(totals).key = key
    THEN <<[key |-> key, hours |-> Head(totals).hours + h]>> \o Tail(totals)
    ELSE <<Head(totals)>> \o AddTotal(Tail(totals), key, h)

\* The loop that fills monthly_totals, in insertion order; fatal when
\* int()/float() raises
RECURSIVE FixTotals(_, _)
FixTotals(batch, totals) ==
    IF batch = <<>> THEN [fatal |-> FALSE, totals |-> totals]
    ELSE LET e == Head(batch)
         IN  IF Raises(e.year) \/ Raises(e.month) \/ Raises(e.hours)
             THEN [fatal |-> TRUE, totals |-> totals]
             ELSE IF e.member_id # 0 /\ Parse(e.year) # 0 /\ Parse(e.month) # 0
                     /\ Parse(e.hours) > 0
             THEN FixTotals(Tail(batch), AddTotal(totals, FixKey(e), Parse(e.hours)))
             ELSE FixTotals(Tail(batch), totals)

\* One iteration of the create loop over monthly_totals.items()
FixItem(p, t) ==
    IF ~KnownMember(t.key.member_id) THEN [kind |-> "rowerr", row |-> NoRow]
    ELSE [kind |-> "row",
          row |-> AllocRow(p, t.key.member_id, t.key.year, t.key.month, 0,
                           t.hours, MemberOf(t.key.member_id).hourly_rate, FALSE)]

-----------------------------------------------------------------------------
(* Responses *)

Msg(text, n) == [text |-> text, n |-> n]
Pending == [http |-> 0, body |-> [status |-> "pending"]]

AdminSuccess == [http |-> 200, body |-> [status |-> "success"]]
AdminError == [http |-> 400,
               body |-> [status |-> "error", message |-> Msg("exception", 0)]]
FixSuccess(n) == [http |-> 200,
                  body |-> [status |-> "success", message |-> Msg("created", n)]]
FixError == [http |-> 500,
             body |-> [status |-> "error", message |-> Msg("exception", 0)]]

-----------------------------------------------------------------------------
(* The save, statement by statement.  Every ORM call commits on its own:     *)
(* the view opens no transaction.                                            *)

IdleReq ==
    [pc |-> "idle", project |-> 0, batch |-> <<>>, work |-> <<>>, i |-> 1,
     pm |-> 0, printed |-> 0, created |-> 0, resp |-> Pending,
     before |-> EmptyBag, results |-> <<>>]

\* The request is read, the PM is identified (admin.py) or monthly_totals is
\* filled (fix), and the project's rows are deleted.
Begin(h, p, b) ==
    LET cleared == DeleteProject(allocs, p)
        base == [req[h] EXCEPT !.pc = "creating", !.project = p, !.batch = b,
                               !.i = 1, !.printed = 0, !.created = 0,
                               !.resp = Pending, !.before = ProjRows(allocs, p)]
        t == FixTotals(b, <<>>)
    IN  /\ allocs' = cleared
        /\ req' = [req EXCEPT ![h] =
              IF variant = "admin"
              THEN [base EXCEPT !.work = b, !.pm = FindPm(b)]
              ELSE IF t.fatal
              THEN [base EXCEPT !.pc = "done", !.work = <<>>, !.resp = FixError,
                                !.results = Append(@, ProjRows(cleared, p))]
              ELSE [base EXCEPT !.work = t.totals]]

SaveBegin(h) ==
    /\ req[h].pc = "idle"
    /\ \E p \in Projects, b \in Batches : Begin(h, p, b)
    /\ UNCHANGED <<userVars, variant, profiles, total_hours, seen, viewVars, costVars, revVars>>

SaveBeginConc(h) ==
    /\ req[h].pc = "idle"
    /\ \E p \in Projects, b \in ConcBatches : Begin(h, p, b)
    /\ UNCHANGED <<userVars, variant, profiles, total_hours, seen, viewVars, costVars, revVars>>

\* The same request is submitted again.
SaveAgain(h) ==
    /\ req[h].pc = "done"
    /\ Len(req[h].results) < MaxRuns
    /\ Begin(h, req[h].project, req[h].batch)
    /\ UNCHANGED <<userVars, variant, profiles, total_hours, seen, viewVars, costVars, revVars>>

\* One iteration of the create loop.
SaveCreate(h) ==
    /\ req[h].pc = "creating"
    /\ req[h].i <= Len(req[h].work)
    /\ LET r == req[h]
           item == IF variant = "admin"
                   THEN AdminItem(r.project, r.work[r.i], r.pm)
                   ELSE FixItem(r.project, r.work[r.i])
       IN  CASE item.kind = "row" ->
                  /\ allocs' = InsertRow(allocs, item.row)
                  /\ req' = [req EXCEPT ![h].i = @ + 1, ![h].created = @ + 1]
             [] item.kind = "rowerr" ->
                  /\ allocs' = allocs
                  /\ req' = [req EXCEPT ![h].i = @ + 1, ![h].printed = @ + 1]
             [] item.kind = "skip" ->
                  /\ allocs' = allocs
                  /\ req' = [req EXCEPT ![h].i = @ + 1]
             [] item.kind = "fatal" ->
                  /\ allocs' = allocs
                  /\ req' = [req EXCEPT ![h].pc = "done", ![h].resp = AdminError,
                                        ![h].results =
                                            Append(@, ProjRows(allocs, r.project))]
    /\ UNCHANGED <<userVars, variant, profiles, total_hours, seen, viewVars, costVars, revVars>>

\* return JsonResponse(...) after the loop
SaveRespond(h) ==
    /\ req[h].pc = "creating"
    /\ req[h].i > Len(req[h].work)
    /\ req' = [req EXCEPT ![h].pc = "done",
                          ![h].resp = IF variant = "admin" THEN AdminSuccess
                                      ELSE FixSuccess(req[h].created),
                          ![h].results = Append(@, ProjRows(allocs, req[h].project))]
    /\ UNCHANGED <<userVars, variant, profiles, total_hours, allocs, seen, viewVars, costVars,
                   revVars>>

\* get_allocation_data_view: one query for the project's rows.  during and
\* touched record which saves were running on, and had ever started on, the
\* project when the query ran.
NoSeen == [project |-> 0, rows |-> EmptyBag, during |-> {}, touched |-> {}]

ReadAllocations(p) ==
    /\ seen' = [project |-> p, rows |-> ProjRows(allocs, p),
                during |-> {h \in Handlers :
                               req[h].pc = "creating" /\ req[h].project = p},
                touched |-> {h \in Handlers :
                               req[h].pc # "idle" /\ req[h].project = p}]
    /\ UNCHANGED <<userVars, variant, profiles, total_hours, allocs, req, viewVars, costVars,
                   revVars>>

\* The rows a save of batch b leaves on project p when nothing else runs.
RECURSIVE RunAdmin(_, _, _, _)
RunAdmin(p, work, pm, table) ==
    IF work = <<>> THEN table
    ELSE LET item == AdminItem(p, Head(work), pm)
         IN  IF item.kind = "fatal" THEN table
             ELSE RunAdmin(p, Tail(work), pm,
                           IF item.kind = "row" THEN InsertRow(table, item.row)
                           ELSE table)

RECURSIVE RunFix(_, _, _)
RunFix(p, work, table) ==
    IF work = <<>> THEN table
    ELSE LET item == FixItem(p, Head(work))
         IN  RunFix(p, Tail(work),
                    IF item.kind = "row" THEN InsertRow(table, item.row) ELSE table)

SaveAlone(p, b) ==
    IF variant = "admin" THEN RunAdmin(p, b, FindPm(b), EmptyBag)
    ELSE LET t == FixTotals(b, <<>>)
         IN  IF t.fatal THEN EmptyBag ELSE RunFix(p, t.totals, EmptyBag)

-----------------------------------------------------------------------------
(* Utilization and health: pm_dashboard and ProjectAdmin.allocation_status *)

HoursNull == [null |-> TRUE, v |-> 0]     \* total_hours is None
Hours(n) == [null |-> FALSE, v |-> n]

\* aggregate(total=Sum('allocated_hours'))['total'] or Decimal('0')
RECURSIVE SumHours(_)
SumHours(table) ==
    IF DOMAIN table = {} THEN 0
    ELSE LET r == CHOOSE x \in DOMAIN table : TRUE
         IN  r.allocated_hours * table[r]
             + SumHours([x \in DOMAIN table \ {r} |-> table[x]])

\* (float(allocated) / float(total_hours) * 100) if total_hours > 0 else 0
Utilization(allocated, total) ==
    IF total > 0 THEN RMul(RDiv(Rat(allocated), Rat(total)), Rat(100)) ELSE Rat(0)

\* 'good' if utilization >= 80 else 'warning' if utilization >= 50 else 'critical';
\* HealthStrict is the faulty classification with > for >=
HealthStrict(u) ==
    IF RLt(Rat(80), u) THEN "good" ELSE IF RLt(Rat(50), u) THEN "warning"
    ELSE "critical"

Health(u) ==
    IF RLeq(Rat(80), u) THEN "good" ELSE IF RLeq(Rat(50), u) THEN "warning"
    ELSE "critical"

\* int(x): truncation toward zero
Trunc(r) == IF r[1] >= 0 THEN r[1] \div r[2] ELSE -((-r[1]) \div r[2])

NoView == [project |-> 0, allocated_hours |-> 0, utilization |-> Rat(0),
           health |-> "none"]

PmDashboard(p) ==
    /\ LET allocated == SumHours(ProjRows(allocs, p))
           total == IF total_hours[p].null THEN 0 ELSE total_hours[p].v
           utilization == Utilization(allocated, total)
       IN  pmview' = [project |-> p, allocated_hours |-> allocated,
                      utilization |-> utilization, health |-> Health(utilization)]
    /\ UNCHANGED <<userVars, saveVars, status_cell, costVars, revVars>>

NoCell == [project |-> 0, kind |-> "none", percentage |-> Rat(0),
           color |-> "", width |-> 0, label |-> 0]

AllocationStatus(p) ==
    /\ LET allocated == SumHours(ProjRows(allocs, p))
           total == total_hours[p].v
           percentage == RMul(RDiv(Rat(allocated), Rat(total)), Rat(100))
       IN  status_cell' =
             IF total_hours[p].null \/ total = 0
             THEN [NoCell EXCEPT !.project = p, !.kind = "dash"]
             ELSE IF total > 0
             THEN [project |-> p, kind |-> "bar", percentage |-> percentage,
                   color |-> IF RLeq(Rat(80), percentage) THEN "#22c55e"
                             ELSE IF RLeq(Rat(50), percentage) THEN "#f97316"
                             ELSE "#ef4444",
                   width |-> IF Trunc(percentage) < 100 THEN Trunc(percentage)
                             ELSE 100,
                   label |-> Trunc(percentage)]
             ELSE [NoCell EXCEPT !.project = p, !.kind = "nohours"]
    /\ UNCHANGED <<userVars, saveVars, pmview, costVars, revVars>>

-----------------------------------------------------------------------------
(* Initial tables *)

\* Rows the admin screens hold before a save: one of project 1, one of
\* project 2.
OldRow1 == AllocRow(1, 2, 2023, 12, 0, 7, 80, FALSE)
OldRow2 == AllocRow(2, 1, 2023, 12, 0, 7, 100, TRUE)
StartTables == {EmptyBag, SetToBag({OldRow1, OldRow2})}

\* Rows the views sum over: several months and years of project 1, and
\* project 2.
ViewRows ==
    { AllocRow(1, 1, 2024, 1, 0, 10, 100, FALSE),
      AllocRow(1, 2, 2024, 2, 0, 6, 80, FALSE),
      AllocRow(1, 1, 2023, 12, 0, 20, 100, FALSE),
      AllocRow(2, 1, 2024, 1, 0, 10, 100, FALSE) }

RECURSIVE SeqToBag(_)
SeqToBag(s) == IF s = <<>> THEN EmptyBag ELSE SetToBag({Head(s)}) (+) SeqToBag(Tail(s))

ViewTables == {SeqToBag(s) : s \in SeqsUpTo(ViewRows, MaxAllocRows)}
HoursValues == {HoursNull, Hours(0), Hours(20), Hours(25), Hours(-5)}

InitSaveIdle ==
    /\ variant = "admin"
    /\ total_hours = [p \in Projects |-> Hours(20)]
    /\ allocs = EmptyBag
    /\ req = [h \in Handlers |-> IdleReq]
    /\ seen = NoSeen

InitViewIdle ==
    /\ pmview = NoView
    /\ status_cell = NoCell

-----------------------------------------------------------------------------
(* calculate_monthly_operating_costs, agency/views.py *)

Company == 1       \* the company every query is scoped to

\* Step 1: the payroll queryset and its sum
PayrollMembers(y, m) ==
    { u \in profiles :
        /\ u.company = Company
        /\ u.status \in {"full_time", "part_time"}
        /\ (u.start_date = NoDate \/ DateLeq(u.start_date, <<y, m, 1>>))
        /\ (u.end_date = NoDate \/ DateLeq(<<y, m, 1>>, u.end_date)) }

RECURSIVE SumField(_, _)
SumField(S, f) ==
    IF S = {} THEN 0
    ELSE LET x == CHOOSE e \in S : TRUE IN x[f] + SumField(S \ {x}, f)

Payroll(y, m) == SumField(PayrollMembers(y, m), "monthly_salary_cost")

MonthStart(y, m) == <<y, m, 1>>
MonthEnd(y, m) == <<y, m, DaysInMonth(y, m)>>

\* CostActiveFromMonthStart is the faulty filter that takes start_date up to
\* the first day of the month
CostActiveFromMonthStart(c, y, m) ==
    /\ c.company = Company
    /\ c.is_active
    /\ DateLeq(c.start_date, MonthStart(y, m))
    /\ (c.end_date = NoDate \/ DateLeq(MonthStart(y, m), c.end_date))

\* Cost.objects.filter(company, start_date__lte=month_end, is_active=True)
\*     .filter(Q(end_date__isnull=True) | Q(end_date__gte=month_start))
CostActive(c, y, m) ==
    /\ c.company = Company
    /\ c.is_active
    /\ DateLeq(c.start_date, MonthEnd(y, m))
    /\ (c.end_date = NoDate \/ DateLeq(MonthStart(y, m), c.end_date))

\* The loop over costs_this_month.  A row whose monthly_amount raises ends
\* the loop with what was added so far; raises is the Cost.monthly_amount
\* property failing for that row.
RECURSIVE CostLoop(_, _, _, _)
CostLoop(rows, y, m, acc) ==
    IF rows = <<>> THEN [sum |-> acc, raised |-> FALSE]
    ELSE LET c == Head(rows)
         IN  IF ~CostActive(c, y, m) \/ c.cost_type = "payroll"
             THEN CostLoop(Tail(rows), y, m, acc)
             ELSE IF c.raises THEN [sum |-> acc, raised |-> TRUE]
             ELSE CostLoop(Tail(rows), y, m, acc + c.monthly_amount)

\* ExpenseActiveAnyDate is the faulty filter without the date range
ExpenseActiveAnyDate(e, y, m) == e.company = Company /\ e.is_active

\* Expense.objects.filter(company, is_active=True, start_date__lte=month_end)
\*     .filter(Q(end_date__isnull=True) | Q(end_date__gte=month_start))
ExpenseActive(e, y, m) ==
    /\ e.company = Company
    /\ e.is_active
    /\ e.start_date # NoDate
    /\ DateLeq(e.start_date, MonthEnd(y, m))
    /\ (e.end_date = NoDate \/ DateLeq(MonthStart(y, m), e.end_date))

\* The except branch: legacy Expense rows plus ContractorExpense rows
LegacyCosts(y, m) ==
    SumField({e \in expenses : ExpenseActive(e, y, m)}, "monthly_amount")
    + SumField({e \in contractor_expenses :
                  e.company = Company /\ e.year = y /\ e.month = m}, "amount")

\* The whole function.  structured and legacy are what each source added to
\* total_costs.
OperatingCosts(y, m) ==
    LET payroll == Payroll(y, m)
        loop == IF cost_model THEN CostLoop(costs, y, m, 0)
                ELSE [sum |-> 0, raised |-> TRUE]
        legacy == IF loop.raised THEN LegacyCosts(y, m) ELSE 0
    IN  [year |-> y, month |-> m, payroll |-> payroll, structured |-> loop.sum,
         legacy |-> legacy, raised |-> loop.raised,
         total |-> payroll + loop.sum + legacy]

NoCostCall == [year |-> 0, month |-> 0, payroll |-> 0, structured |-> 0,
               legacy |-> 0, raised |-> FALSE, total |-> 0]

CostQueries == {<<2024, 1>>, <<2024, 2>>, <<2024, 3>>, <<2024, 4>>}

CalculateMonthlyOperatingCosts ==
    /\ \E q \in CostQueries : costcall' = OperatingCosts(q[1], q[2])
    /\ UNCHANGED <<userVars, saveVars, viewVars, revVars, cost_model, costs, expenses,
                   contractor_expenses>>

\* Rows of the cost tables
CostRow(company, type, amount, start, end, active, raises, contractor) ==
    [company |-> company, cost_type |-> type, monthly_amount |-> amount,
     start_date |-> start, end_date |-> end, is_active |-> active,
     raises |-> raises, is_contractor |-> contractor]

CostUniverse ==
    { CostRow(1, "rent", 300, <<2024, 1, 1>>, NoDate, TRUE, FALSE, FALSE),
      CostRow(1, "software", 200, <<2024, 2, 15>>, <<2024, 3, 10>>, TRUE, FALSE,
              FALSE),
      CostRow(1, "other", 70, <<2024, 1, 1>>, <<2024, 2, 29>>, TRUE, TRUE, FALSE),
      CostRow(1, "payroll", 900, <<2024, 1, 1>>, NoDate, TRUE, FALSE, FALSE),
      CostRow(1, "rent", 40, <<2024, 1, 1>>, NoDate, FALSE, FALSE, FALSE),
      CostRow(2, "rent", 50, <<2024, 1, 1>>, NoDate, TRUE, FALSE, FALSE),
      CostRow(1, "contractor", 400, <<2024, 1, 1>>, NoDate, TRUE, FALSE, TRUE) }

ExpenseRow(company, amount, start, end, active) ==
    [company |-> company, monthly_amount |-> amount, start_date |-> start,
     end_date |-> end, is_active |-> active]

ExpenseUniverse ==
    { ExpenseRow(1, 150, <<2024, 1, 1>>, NoDate, TRUE),
      ExpenseRow(1, 60, <<2024, 2, 10>>, <<2024, 2, 20>>, TRUE),
      ExpenseRow(1, 25, <<2024, 1, 1>>, NoDate, FALSE) }

ContractorRow(company, y, m, amount) ==
    [company |-> company, year |-> y, month |-> m, amount |-> amount]

ContractorUniverse ==
    { ContractorRow(1, 2024, 2, 500), ContractorRow(1, 2023, 2, 35),
      ContractorRow(2, 2024, 2, 45) }

PayrollProfiles ==
    { Profile(1, 1, 100, "full_time", NoDate, NoDate, 5000),
      Profile(2, 1, 80, "part_time", <<2024, 2, 1>>, <<2024, 3, 1>>, 3000),
      Profile(4, 1, 60, "contractor", NoDate, NoDate, 2000),
      Profile(5, 1, 70, "full_time", <<2024, 1, 2>>, <<2024, 1, 31>>, 1000),
      Profile(3, 2, 90, "full_time", NoDate, NoDate, 4000) }

SubsetsUpTo(S, n) == {T \in SUBSET S : Cardinality(T) <= n}

InitCostIdle ==
    /\ cost_model = TRUE
    /\ costs = <<>>
    /\ expenses = {}
    /\ contractor_expenses = {}
    /\ costcall = NoCostCall

-----------------------------------------------------------------------------
(* revenue_chart_data, agency/views.py *)

Months == 1..12
Years == {2023, 2024, 2025}

\* d.replace(day=1); FirstOfMonthKeepDay is the faulty one that keeps the day
FirstOfMonthKeepDay(d) == d

FirstOfMonth(d) == <<d[1], d[2], 1>>

\* current_date.replace(year + 1, month=1) in December, else replace(month + 1)
NextMonth(d) == IF d[2] = 12 THEN <<d[1] + 1, 1, d[3]>> ELSE <<d[1], d[2] + 1, d[3]>>

\* CountMonthsStrict is the faulty count that stops one month early
RECURSIVE CountMonthsStrict(_, _)
CountMonthsStrict(current_date, end_date) ==
    IF current_date # end_date /\ DateLeq(current_date, end_date)
    THEN 1 + CountMonthsStrict(NextMonth(current_date), end_date)
    ELSE 0

\* The while loop that counts total_project_months
RECURSIVE CountMonths(_, _)
CountMonths(current_date, end_date) ==
    IF DateLeq(current_date, end_date)
    THEN 1 + CountMonths(NextMonth(current_date), end_date)
    ELSE 0

\* project.start_date.replace(day=1) to project.end_date.replace(day=1);
\* TotalProjectMonthsFromStartDay is the faulty count that keeps the start's day
TotalProjectMonthsFromStartDay(p) ==
    CountMonths(p.start_date, FirstOfMonth(p.end_date))

TotalProjectMonths(p) ==
    CountMonths(FirstOfMonth(p.start_date), FirstOfMonth(p.end_date))

\* The while loop over the overlap period: the month numbers of the year
\* that receive monthly_amount
RECURSIVE MonthsAdded(_, _, _)
MonthsAdded(current_month, overlap_end, year) ==
    IF DateLeq(current_month, overlap_end)
    THEN (IF current_month[1] = year THEN {current_month[2]} ELSE {})
         \cup MonthsAdded(NextMonth(current_month), overlap_end, year)
    ELSE {}

\* ChartTypeForecastDefault is the faulty default: 'forecast' unless 'booked'
ChartTypeForecastDefault(p) ==
    IF p.revenue_type = "booked" THEN "booked" ELSE "forecast"

\* revenue_type of a project: 'booked' unless it is 'forecast'
ChartType(p) ==
    IF p.revenue_type \in {"booked", "forecast"} THEN p.revenue_type ELSE "booked"

\* AddProjectSubtracting is the faulty iteration that subtracts monthly_amount
AddProjectSubtracting(data, p, year) ==
    IF p.start_date = NoDate \/ p.end_date = NoDate THEN data
    ELSE
    LET monthly_amount == RDiv(Rat(p.total_revenue), Rat(TotalProjectMonths(p)))
        hit == MonthsAdded(FirstOfMonth(DateMax(p.start_date, <<year, 1, 1>>)),
                           DateMin(p.end_date, <<year, 12, 31>>), year)
    IN  IF TotalProjectMonths(p) > 0
        THEN [m \in Months |->
                IF m \in hit
                THEN [data[m] EXCEPT ![ChartType(p)] = RSub(@, monthly_amount)]
                ELSE data[m]]
        ELSE data

\* One iteration of the loop over projects: monthly_data after project p.
\* A project with a null date raises inside the per-project try and is
\* skipped.
AddProject(data, p, year) ==
    IF p.start_date = NoDate \/ p.end_date = NoDate THEN data
    ELSE
    LET overlap_start == DateMax(p.start_date, <<year, 1, 1>>)
        overlap_end == DateMin(p.end_date, <<year, 12, 31>>)
        total_project_months == TotalProjectMonths(p)
        monthly_amount == RDiv(Rat(p.total_revenue), Rat(total_project_months))
        hit == MonthsAdded(FirstOfMonth(overlap_start), overlap_end, year)
        t == ChartType(p)
    IN  IF DateLeq(overlap_start, overlap_end) /\ total_project_months > 0
        THEN [m \in Months |->
                IF m \in hit THEN [data[m] EXCEPT ![t] = RAdd(@, monthly_amount)]
                ELSE data[m]]
        ELSE data

RECURSIVE AddProjects(_, _, _)
AddProjects(data, ps, year) ==
    IF ps = {} THEN data
    ELSE LET p == CHOOSE x \in ps : TRUE
         IN  AddProjects(AddProject(data, p, year), ps \ {p}, year)

\* MonthlyRevenue.objects.filter(company, year).values('month', 'revenue_type')
\*     .annotate(total=Sum('revenue')): the rows of one group, and its sum;
\* LedgerGroupAnyYear is the faulty query without the year filter
LedgerGroupAnyYear(year, m, t) ==
    {r \in ledger : r.company = Company /\ r.month = m /\ r.revenue_type = t}

LedgerGroup(year, m, t) ==
    {r \in ledger : r.company = Company /\ r.year = year /\ r.month = m
                    /\ r.revenue_type = t}

LedgerTotal(year, m, t) == SumField(LedgerGroup(year, m, t), "revenue")

\* Strategy 1: a bucket is set to its group's total when the group exists
LedgerData(year) ==
    [m \in Months |->
        [booked |-> IF LedgerGroup(year, m, "booked") # {}
                    THEN Rat(LedgerTotal(year, m, "booked")) ELSE Rat(0),
         forecast |-> IF LedgerGroup(year, m, "forecast") # {}
                      THEN Rat(LedgerTotal(year, m, "forecast")) ELSE Rat(0),
         expenses |-> Rat(0)]]

\* Strategy 2 runs whatever strategy 1 found; ChartDataLedgerWins is the
\* faulty view that skips it when the ledger has rows for the year
CompanyProjects == {p \in projects : p.company = Company}

ChartDataLedgerWins(year) ==
    IF \E r \in ledger : r.company = Company /\ r.year = year
    THEN LedgerData(year)
    ELSE AddProjects(LedgerData(year), CompanyProjects, year)

ChartData(year) == AddProjects(LedgerData(year), CompanyProjects, year)

NoChart == [year |-> 0, booked |-> <<>>, forecast |-> <<>>, combined |-> <<>>,
            expenses |-> <<>>, data_source |-> ""]

RevenueChartData ==
    /\ chart = NoChart
    /\ \E year \in Years :
         LET data == ChartData(year)
         IN  chart' = [year |-> year,
                       booked |-> [i \in 1..12 |-> data[i].booked],
                       forecast |-> [i \in 1..12 |-> data[i].forecast],
                       combined |-> [i \in 1..12 |->
                                       RAdd(data[i].booked, data[i].forecast)],
                       expenses |-> [i \in 1..12 |->
                                       Rat(OperatingCosts(year, i).total)],
                       data_source |-> "combined"]
    /\ UNCHANGED <<userVars, saveVars, viewVars, costVars, projects, ledger, annual, dash,
                   chart_exc>>

\* The same view when a statement inside its try raises: the outer except
\* prints the error and the lists are built from monthly_data as it stands.
\*   "ledger"    the MonthlyRevenue query raises: nothing was filled
\*   "projects"  the Project query raises: the ledger's totals were filled
\*   "costs"     calculate_monthly_operating_costs raises for January:
\*               booked and forecast were filled, no expenses
ChartFailures == {"ledger", "projects", "costs"}

ZeroData == [m \in Months |-> [booked |-> Rat(0), forecast |-> Rat(0),
                               expenses |-> Rat(0)]]

DataAtRaise(year, fail) ==
    IF fail = "ledger" THEN ZeroData
    ELSE IF fail = "projects" THEN LedgerData(year)
    ELSE ChartData(year)

NoChartExc == [fail |-> "none", response |-> NoChart]

RevenueChartDataRaising ==
    /\ chart_exc = NoChartExc
    /\ \E fail \in ChartFailures :
         LET year == 2024
             data == DataAtRaise(year, fail)
         IN  chart_exc' =
                 [fail |-> fail,
                  response |->
                      [year |-> year,
                       booked |-> [i \in 1..12 |-> data[i].booked],
                       forecast |-> [i \in 1..12 |-> data[i].forecast],
                       combined |-> [i \in 1..12 |->
                                       RAdd(data[i].booked, data[i].forecast)],
                       expenses |-> [i \in 1..12 |-> data[i].expenses],
                       data_source |-> "combined"]]
    /\ UNCHANGED <<userVars, saveVars, viewVars, costVars, projects, ledger, chart, annual,
                   dash>>

-----------------------------------------------------------------------------
(* Annual revenue of dashboard, agency/views.py *)

RECURSIVE DaysBeforeYear(_)
DaysBeforeYear(y) ==
    IF y <= 2000 THEN 0
    ELSE DaysBeforeYear(y - 1) + (IF IsLeap(y - 1) THEN 366 ELSE 365)

RECURSIVE DaysBeforeMonth(_, _)
DaysBeforeMonth(y, m) ==
    IF m <= 1 THEN 0 ELSE DaysBeforeMonth(y, m - 1) + DaysInMonth(y, m - 1)

\* date.toordinal(), counted from 2000-01-01
Ordinal(d) == DaysBeforeYear(d[1]) + DaysBeforeMonth(d[1], d[2]) + d[3]

\* (a - b).days
DaysBetween(a, b) == Ordinal(a) - Ordinal(b)

\* year_revenue of one project: total_revenue * year_project_days / total_project_days
YearRevenue(p, current_year) ==
    LET project_start == DateMax(p.start_date, <<current_year, 1, 1>>)
        project_end == DateMin(p.end_date, <<current_year, 12, 31>>)
        total_project_days == DaysBetween(p.end_date, p.start_date) + 1
        year_project_days == DaysBetween(project_end, project_start) + 1
    IN  IF DateLeq(project_start, project_end) /\ total_project_days > 0
        THEN RDiv(RMul(Rat(p.total_revenue), Rat(year_project_days)),
                  Rat(total_project_days))
        ELSE Rat(0)

RECURSIVE SumYearRevenue(_, _)
SumYearRevenue(ps, current_year) ==
    IF ps = {} THEN Rat(0)
    ELSE LET p == CHOOSE x \in ps : TRUE
         IN  RAdd(YearRevenue(p, current_year), SumYearRevenue(ps \ {p}, current_year))

\* MonthlyRevenue.objects.filter(company, year, revenue_type)
\*     .aggregate(total=Sum('revenue'))['total'] or Decimal('0')
LedgerYearTotal(year, t) ==
    SumField({r \in ledger : r.company = Company /\ r.year = year
                             /\ r.revenue_type = t}, "revenue")

NoAnnual == [year |-> 0, booked |-> Rat(0), forecast |-> Rat(0), total |-> Rat(0),
             source |-> "none"]

\* The annual revenue block: the ledger's sums of the year when one of them
\* is positive, else the projects' day-based shares of the year
AnnualRevenue(current_year) ==
    LET monthly_booked == LedgerYearTotal(current_year, "booked")
        monthly_forecast == LedgerYearTotal(current_year, "forecast")
        from_ledger == monthly_booked > 0 \/ monthly_forecast > 0
        booked == IF from_ledger THEN Rat(monthly_booked)
                  ELSE SumYearRevenue({p \in CompanyProjects :
                                          p.revenue_type # "forecast"},
                                      current_year)
        forecast == IF from_ledger THEN Rat(monthly_forecast)
                    ELSE SumYearRevenue({p \in CompanyProjects :
                                            p.revenue_type = "forecast"},
                                        current_year)
    IN  [year |-> current_year, booked |-> booked,
         forecast |-> forecast, total |-> RAdd(booked, forecast),
         source |-> IF from_ledger THEN "ledger" ELSE "projects"]

DashboardAnnual ==
    /\ annual = NoAnnual
    /\ \E current_year \in Years : annual' = AnnualRevenue(current_year)
    /\ UNCHANGED <<userVars, saveVars, viewVars, costVars, projects, ledger, chart, dash,
                   chart_exc>>

-----------------------------------------------------------------------------
(* dashboard, agency/views.py: the whole view *)

\* duration_months of a project
DurationMonths(p) ==
    (p.end_date[1] - p.start_date[1]) * 12 + p.end_date[2] - p.start_date[2] + 1

\* Booked projects that start by the 28th of the month and end on or after
\* its first day
CurrentProjects(y, m) ==
    { p \in CompanyProjects :
        /\ p.revenue_type = "booked"
        /\ p.start_date # NoDate /\ p.end_date # NoDate
        /\ DateLeq(p.start_date, <<y, m, 28>>)
        /\ DateLeq(<<y, m, 1>>, p.end_date) }

RECURSIVE SumMonthlyShares(_)
SumMonthlyShares(ps) ==
    IF ps = {} THEN Rat(0)
    ELSE LET p == CHOOSE x \in ps : TRUE
         IN  RAdd(IF DurationMonths(p) > 0
                  THEN RDiv(Rat(p.total_revenue), Rat(DurationMonths(p)))
                  ELSE Rat(0),
                  SumMonthlyShares(ps \ {p}))

\* current_revenue: the ledger's booked sum of the month when positive, else
\* total_revenue / duration_months of the current booked projects
CurrentRevenue(y, m) ==
    LET monthly_rev == LedgerTotal(y, m, "booked")
    IN  IF monthly_rev > 0 THEN Rat(monthly_rev)
        ELSE SumMonthlyShares(CurrentProjects(y, m))

\* Cost rows the dashboard reads: started by the first day of the month
DashCostActive(c, y, m) ==
    /\ c.company = Company
    /\ c.is_active
    /\ DateLeq(c.start_date, <<y, m, 1>>)
    /\ (c.end_date = NoDate \/ DateLeq(<<y, m, 1>>, c.end_date))

\* The loop over costs_this_month; a row whose monthly_amount raises ends it
\* with what was added so far
RECURSIVE DashCostLoop(_, _, _, _)
DashCostLoop(rows, y, m, acc) ==
    IF rows = <<>> THEN [contractor |-> acc.contractor, other |-> acc.other,
                         raised |-> FALSE]
    ELSE LET c == Head(rows)
         IN  IF ~DashCostActive(c, y, m) THEN DashCostLoop(Tail(rows), y, m, acc)
             ELSE IF c.raises
             THEN [contractor |-> acc.contractor, other |-> acc.other,
                   raised |-> TRUE]
             ELSE IF c.is_contractor
             THEN DashCostLoop(Tail(rows), y, m,
                               [acc EXCEPT !.contractor = @ + c.monthly_amount])
             ELSE IF c.cost_type # "payroll"
             THEN DashCostLoop(Tail(rows), y, m,
                               [acc EXCEPT !.other = @ + c.monthly_amount])
             ELSE DashCostLoop(Tail(rows), y, m, acc)

\* payroll_costs, contractor_costs and other_costs of the month
DashCosts(y, m) ==
    LET payroll == SumField({u \in profiles : u.company = Company
                                              /\ u.status = "full_time"},
                            "monthly_salary_cost")
        zero == [contractor |-> 0, other |-> 0]
        loop == IF cost_model THEN DashCostLoop(costs, y, m, zero)
                ELSE [contractor |-> 0, other |-> 0, raised |-> TRUE]
        legacy_other ==
            SumField({e \in expenses : e.company = Company /\ e.is_active},
                     "monthly_amount")
        legacy_contractor ==
            SumField({e \in contractor_expenses :
                          e.company = Company /\ e.year = y /\ e.month = m},
                     "amount")
        contractor == loop.contractor + (IF loop.raised THEN legacy_contractor ELSE 0)
        other == loop.other + (IF loop.raised THEN legacy_other ELSE 0)
    IN  [payroll |-> payroll, contractor |-> contractor, other |-> other,
         total |-> payroll + contractor + other]

\* (profit / revenue * 100) if revenue > 0 else Decimal('0'); MarginOfOne is
\* the faulty margin left as a fraction
MarginOfOne(profit, revenue) ==
    IF RLt(Rat(0), revenue) THEN RDiv(profit, revenue) ELSE Rat(0)

Margin(profit, revenue) ==
    IF RLt(Rat(0), revenue) THEN RMul(RDiv(profit, revenue), Rat(100)) ELSE Rat(0)

\* The context the template receives.  outcome is "context" for the normal
\* return, "fallback" for the except branch, "raised" when the view itself
\* raises; error is the 'error' key.
NoDash ==
    [outcome |-> "none", error |-> FALSE, year |-> 0, month |-> 0,
     total_projects |-> 0, current_revenue |-> Rat(0),
     total_annual_revenue |-> Rat(0), current_month_costs |-> Rat(0),
     total_annual_costs |-> Rat(0), monthly_profit |-> Rat(0),
     monthly_profit_margin |-> Rat(0), annual_profit |-> Rat(0),
     annual_profit_margin |-> Rat(0), all_profiles |-> FALSE]

DashContext(y, m, superuser) ==
    LET current_revenue == CurrentRevenue(y, m)
        total_annual_revenue == AnnualRevenue(y).total
        current_month_costs == Rat(DashCosts(y, m).total)
        total_annual_costs == RMul(current_month_costs, Rat(12))
        monthly_profit == RSub(current_revenue, current_month_costs)
        annual_profit == RSub(total_annual_revenue, total_annual_costs)
    IN  [outcome |-> "context", error |-> FALSE, year |-> y, month |-> m,
         total_projects |-> Cardinality(CompanyProjects),
         current_revenue |-> current_revenue,
         total_annual_revenue |-> total_annual_revenue,
         current_month_costs |-> current_month_costs,
         total_annual_costs |-> total_annual_costs,
         monthly_profit |-> monthly_profit,
         monthly_profit_margin |-> Margin(monthly_profit, current_revenue),
         annual_profit |-> annual_profit,
         annual_profit_margin |-> Margin(annual_profit, total_annual_revenue),
         all_profiles |-> superuser]

\* The except branch.  Its context holds 'error' and six zero figures; for a
\* superuser it then reads the local variable company, which is unbound when
\* the exception came from Company.objects.first() or Company.objects.create().
DashFallback(y, m, superuser, company_bound) ==
    IF superuser /\ ~company_bound
    THEN [NoDash EXCEPT !.outcome = "raised", !.year = y, !.month = m]
    ELSE [NoDash EXCEPT !.outcome = "fallback", !.error = TRUE, !.year = y,
                        !.month = m, !.all_profiles = superuser]

\* Where an exception is raised inside the try: nowhere, while the company
\* is obtained, or while the figures are aggregated
DashFailures == {"none", "company", "figures"}

\* datetime.now() of the request
DashNow == {<<2024, 1>>, <<2024, 2>>, <<2024, 7>>}

Dashboard ==
    /\ dash = NoDash
    /\ \E now \in DashNow, superuser \in BOOLEAN, fail \in DashFailures :
         dash' = IF fail = "none" THEN DashContext(now[1], now[2], superuser)
                 ELSE DashFallback(now[1], now[2], superuser, fail # "company")
    /\ UNCHANGED <<userVars, saveVars, viewVars, costVars, projects, ledger, chart, annual,
                   chart_exc>>

\* Rows of the revenue tables
Proj(company, start, end, total, type) ==
    [company |-> company, start_date |-> start, end_date |-> end,
     total_revenue |-> total, revenue_type |-> type]

ProjectUniverse ==
    { Proj(1, <<2024, 1, 1>>, <<2024, 3, 31>>, 3000, "booked"),
      Proj(1, <<2024, 5, 10>>, <<2024, 6, 20>>, 1000, "forecast"),
      Proj(1, <<2024, 2, 29>>, <<2024, 2, 29>>, 700, "booked"),
      Proj(1, <<2023, 11, 15>>, <<2024, 2, 10>>, 1000, "forecast"),
      Proj(1, <<2025, 3, 1>>, <<2025, 12, 31>>, 1200, ""),
      Proj(1, <<2024, 12, 31>>, <<2024, 12, 31>>, 300, "forecast"),
      Proj(1, <<2024, 7, 1>>, <<2024, 7, 31>>, -600, "booked"),
      Proj(2, <<2024, 1, 1>>, <<2024, 12, 31>>, 2400, "booked") }

LedgerRow(company, y, m, type, revenue) ==
    [company |-> company, year |-> y, month |-> m, revenue_type |-> type,
     revenue |-> revenue]

LedgerUniverse ==
    { LedgerRow(1, 2024, 1, "booked", 400),
      LedgerRow(1, 2024, 1, "booked", 100),
      LedgerRow(1, 2024, 2, "forecast", 250),
      LedgerRow(1, 2025, 3, "booked", 0),
      LedgerRow(1, 2024, 6, "forecast", -50),
      LedgerRow(2, 2024, 1, "booked", 900) }

InitRevIdle ==
    /\ projects = {}
    /\ ledger = {}
    /\ chart = NoChart
    /\ annual = NoAnnual
    /\ dash = NoDash
    /\ chart_exc = NoChartExc

-----------------------------------------------------------------------------
(* ProjectAdmin.remove_member_view, agency/admin.py *)

NoRemoval == [project |-> 0, member_id |-> 0, http |-> 0, before |-> EmptyBag]

\* ProjectAllocation.objects.filter(project=project, user_profile=member)
\*     .delete(); RemoveRowsOfMember is the faulty delete without the
\* project filter
RemoveRowsOfMember(table, p, m) ==
    [r \in {x \in DOMAIN table : x.user_profile # m} |-> table[r]]

RemoveRows(table, p, m) ==
    [r \in {x \in DOMAIN table : ~(x.project = p /\ x.user_profile = m)} |->
        table[r]]

\* One POST.  member_id 0 is a body without member_id; UserProfile.objects.get
\* raises for it and for an id no profile has, and the view answers 400.
RemoveMemberView ==
    /\ \E p \in Projects, m \in {0, 1, 2, 3, 9} :
         /\ removal' = [project |-> p, member_id |-> m,
                        http |-> IF KnownMember(m) THEN 200 ELSE 400,
                        before |-> allocs]
         /\ allocs' = IF KnownMember(m) THEN RemoveRows(allocs, p, m) ELSE allocs
    /\ UNCHANGED <<variant, profiles, total_hours, req, seen, viewVars, costVars,
                   revVars, user, session, last, emp>>

-----------------------------------------------------------------------------
(* Viewing as another user: dashboard_router, get_viewing_user,          *)
(* employee_dashboard, switch_user_view, switch_back_to_admin            *)
(* (agency/views.py)                                                     *)

\* auth User rows; profile is the id of the user's UserProfile, 0 when the
\* user has none, and is_project_manager is that profile's flag
User(id, superuser, profile, pm) ==
    [id |-> id, is_superuser |-> superuser, profile |-> profile,
     is_project_manager |-> pm]

Users ==
    { User(1, TRUE, 0, FALSE),
      User(2, FALSE, 1, TRUE),
      User(3, FALSE, 2, FALSE),
      User(4, FALSE, 0, FALSE),
      User(5, TRUE, 3, FALSE) }

\* 'viewing_as_user' in request.session, and User.objects.get(id=...) on it
HasKey(s) == s # <<>>
KeyUserExists(s) == HasKey(s) /\ \E v \in Users : v.id = s[1]
KeyUser(s) == CHOOSE v \in Users : v.id = s[1]

\* get_viewing_user(request)
GetViewingUser(u, s) ==
    IF u.is_superuser /\ HasKey(s) /\ KeyUserExists(s) THEN KeyUser(s) ELSE u

\* The dashboard a user with a profile is sent to
ProfileRoute(v) ==
    IF v.is_project_manager THEN "pm_dashboard" ELSE "employee_dashboard"

\* dashboard_router(request): the name of the redirect
DashboardRouter(u, s) ==
    IF u.is_superuser /\ HasKey(s) /\ KeyUserExists(s) /\ KeyUser(s).profile # 0
    THEN ProfileRoute(KeyUser(s))
    ELSE IF u.is_superuser THEN "admin_dashboard"
    ELSE IF u.profile # 0 THEN ProfileRoute(u)
    ELSE "admin_dashboard"

NoLast == [op |-> "none", user_id |-> 0, result |-> "", before |-> <<>>]

\* if not request.user.is_superuser: 403; MaySwitchAnyone is the faulty view
\* without that check
MaySwitchAnyone(u) == TRUE

MaySwitch(u) == u.is_superuser

\* switch_user_view: user_id 0 is a request without user_id (or an empty one)
SwitchUserView ==
    /\ \E user_id \in {0, 2, 3, 4, 9} :
         IF ~MaySwitch(user)
         THEN /\ last' = [op |-> "switch_user_view", user_id |-> user_id,
                          result |-> "403", before |-> session]
              /\ session' = session
         ELSE IF user_id # 0
         THEN /\ last' = [op |-> "switch_user_view", user_id |-> user_id,
                          result |-> "dashboard_router", before |-> session]
              /\ session' = <<user_id>>
         ELSE /\ last' = [op |-> "switch_user_view", user_id |-> user_id,
                          result |-> "dashboard", before |-> session]
              /\ session' = session
    /\ UNCHANGED <<saveVars, viewVars, costVars, revVars, removal, user, emp>>

\* del request.session['viewing_as_user']; DelKeyKeeping is the faulty view
\* that leaves the key
DelKeyKeeping(s) == s

DelKey(s) == <<>>

\* switch_back_to_admin
SwitchBackToAdmin ==
    /\ last' = [op |-> "switch_back_to_admin", user_id |-> 0,
                result |-> "dashboard", before |-> session]
    /\ session' = IF HasKey(session) THEN DelKey(session) ELSE session
    /\ UNCHANGED <<saveVars, viewVars, costVars, revVars, removal, user, emp>>

\* One GET of dashboard_router
DashboardRouterView ==
    /\ last' = [op |-> "dashboard_router", user_id |-> 0,
                result |-> DashboardRouter(user, session), before |-> session]
    /\ UNCHANGED <<saveVars, viewVars, costVars, revVars, removal, user, session,
                   emp>>

\* order_by('year', 'month'): every order of the rows that is sorted by
\* (year, month); rows of one month come in any order
YmLeq(a, b) == a.year < b.year \/ (a.year = b.year /\ a.month <= b.month)

RECURSIVE OrderedByYearMonth(_)
OrderedByYearMonth(S) ==
    IF S = {} THEN {<<>>}
    ELSE UNION { {<<r>> \o t : t \in OrderedByYearMonth(S \ {r})} :
                 r \in {x \in S : \A y \in S : YmLeq(x, y)} }

\* ProjectAllocation.objects.filter(user_profile=user_profile,
\*     year__gte=current_year, month__gt=current_month)
UpcomingRows(profile, current_year, current_month) ==
    {r \in DOMAIN allocs : /\ r.user_profile = profile
                           /\ r.year >= current_year
                           /\ r.month > current_month}

NoEmp == [outcome |-> "none", viewing |-> 0, profile |-> 0, year |-> 0,
          month |-> 0, upcoming |-> <<>>]

\* employee_dashboard: viewing_user.profile raises for a user without a
\* profile and the view redirects to the dashboard; else the context is
\* rendered with upcoming_allocations, the first 5 of the ordered queryset
EmployeeDashboard ==
    /\ \E now \in DashNow :
         LET viewing_user == GetViewingUser(user, session)
             base == [NoEmp EXCEPT !.viewing = viewing_user.id,
                                   !.year = now[1], !.month = now[2]]
         IN  IF viewing_user.profile = 0
             THEN emp' = [base EXCEPT !.outcome = "redirect"]
             ELSE \E s \in OrderedByYearMonth(
                               UpcomingRows(viewing_user.profile, now[1], now[2])) :
                      emp' = [base EXCEPT
                                 !.outcome = "rendered",
                                 !.profile = viewing_user.profile,
                                 !.upcoming =
                                     SubSeq(s, 1, IF Len(s) < 5 THEN Len(s) ELSE 5)]
    /\ UNCHANGED <<saveVars, viewVars, costVars, revVars, removal, user, session,
                   last>>

\* Allocations of the members over two years
UserRows ==
    { AllocRow(1, 2, 2024, 2, 0, 6, 80, FALSE),
      AllocRow(1, 2, 2024, 8, 0, 6, 80, FALSE),
      AllocRow(2, 2, 2024, 8, 0, 4, 80, FALSE),
      AllocRow(1, 2, 2024, 9, 0, 6, 80, FALSE),
      AllocRow(1, 2, 2024, 10, 0, 6, 80, FALSE),
      AllocRow(1, 2, 2024, 12, 0, 6, 80, FALSE),
      AllocRow(1, 2, 2025, 3, 0, 6, 80, FALSE),
      AllocRow(1, 2, 2025, 9, 0, 6, 80, FALSE),
      AllocRow(1, 2, 2023, 12, 0, 6, 80, FALSE),
      AllocRow(1, 1, 2024, 3, 0, 10, 100, FALSE),
      AllocRow(2, 1, 2025, 1, 0, 10, 100, TRUE) }

InitUserIdle ==
    /\ removal = NoRemoval
    /\ user = User(1, TRUE, 0, FALSE)
    /\ session = <<>>
    /\ last = NoLast
    /\ emp = NoEmp

-----------------------------------------------------------------------------
(* Specifications *)

\* One handler saves a batch for a project and submits it again.
InitSave ==
    /\ variant \in {"admin", "fix"}
    /\ profiles = BaseProfiles
    /\ total_hours = [p \in Projects |-> Hours(20)]
    /\ allocs \in StartTables
    /\ req = [h \in Handlers |-> IdleReq]
    /\ seen = NoSeen
    /\ InitViewIdle /\ InitUserIdle /\ InitCostIdle /\ InitRevIdle

NextSave == SaveBegin(1) \/ SaveAgain(1) \/ SaveCreate(1) \/ SaveRespond(1)

SpecSave == InitSave /\ [][NextSave]_vars

\* Two handlers save concurrently while the allocation grid is read.
InitConc ==
    /\ variant \in {"admin", "fix"}
    /\ profiles = BaseProfiles
    /\ total_hours = [p \in Projects |-> Hours(20)]
    /\ allocs = SetToBag({OldRow1, OldRow2})
    /\ req = [h \in Handlers |-> IdleReq]
    /\ seen = NoSeen
    /\ InitViewIdle /\ InitUserIdle /\ InitCostIdle /\ InitRevIdle

NextConc ==
    \/ \E h \in Handlers : SaveBeginConc(h) \/ SaveCreate(h) \/ SaveRespond(h)
    \/ \E p \in Projects : ReadAllocations(p)

SpecConc == InitConc /\ [][NextConc]_vars

\* The utilization views over any allocation table.
InitUtil ==
    /\ variant = "admin"
    /\ profiles = BaseProfiles
    /\ total_hours \in [Projects -> HoursValues]
    /\ allocs \in ViewTables
    /\ req = [h \in Handlers |-> IdleReq]
    /\ seen = NoSeen
    /\ InitViewIdle /\ InitUserIdle /\ InitCostIdle /\ InitRevIdle

NextUtil == \E p \in Projects : PmDashboard(p) \/ AllocationStatus(p)

SpecUtil == InitUtil /\ [][NextUtil]_vars

\* The cost aggregator over any cost tables.
InitCost ==
    /\ InitSaveIdle /\ InitViewIdle /\ InitUserIdle /\ InitRevIdle
    /\ profiles \in {{}, BaseProfiles, PayrollProfiles}
    /\ cost_model \in BOOLEAN
    /\ costs \in SeqsUpTo(CostUniverse, MaxCostRows)
    /\ cost_model = FALSE => costs = <<>>
    /\ expenses \in SubsetsUpTo(ExpenseUniverse, MaxLegacyRows)
    /\ contractor_expenses \in SubsetsUpTo(ContractorUniverse, MaxLegacyRows)
    /\ costcall = NoCostCall

NextCost == CalculateMonthlyOperatingCosts

SpecCost == InitCost /\ [][NextCost]_vars

\* The revenue views over any project table and ledger, each requested once.
InitRevenue ==
    /\ InitSaveIdle /\ InitViewIdle /\ InitUserIdle /\ InitCostIdle
    /\ profiles = BaseProfiles
    /\ projects \in SubsetsUpTo(ProjectUniverse, MaxProjects)
    /\ ledger \in SubsetsUpTo(LedgerUniverse, MaxLedgerRows)
    /\ chart = NoChart
    /\ annual = NoAnnual
    /\ dash = NoDash
    /\ chart_exc = NoChartExc

NextRevenue == RevenueChartData \/ DashboardAnnual

SpecRevenue == InitRevenue /\ [][NextRevenue]_vars

\* The dashboard is rendered and the chart is requested, with and without an
\* exception inside their try blocks.
DashProjectTables ==
    { {},
      { Proj(1, <<2024, 1, 1>>, <<2024, 3, 31>>, 3000, "booked"),
        Proj(1, <<2024, 7, 1>>, <<2024, 7, 31>>, -600, "booked") },
      { Proj(1, <<2024, 1, 1>>, <<2024, 3, 31>>, 3000, "booked"),
        Proj(1, <<2023, 11, 15>>, <<2024, 2, 10>>, 1000, "forecast") } }

DashLedgerTables ==
    { {},
      { LedgerRow(1, 2024, 1, "booked", 400), LedgerRow(1, 2024, 1, "booked", 100) },
      { LedgerRow(1, 2024, 2, "forecast", 250),
        LedgerRow(1, 2024, 6, "forecast", -50) } }

DashCostTables ==
    { <<CostRow(1, "rent", 300, <<2024, 1, 1>>, NoDate, TRUE, FALSE, FALSE),
        CostRow(1, "contractor", 400, <<2024, 1, 1>>, NoDate, TRUE, FALSE, TRUE)>>,
      <<CostRow(1, "payroll", 900, <<2024, 1, 1>>, NoDate, TRUE, FALSE, FALSE),
        CostRow(1, "software", 200, <<2024, 2, 15>>, <<2024, 3, 10>>, TRUE, FALSE,
                FALSE)>>,
      <<CostRow(1, "rent", 300, <<2024, 1, 1>>, NoDate, TRUE, FALSE, FALSE),
        CostRow(1, "other", 70, <<2024, 1, 1>>, <<2024, 2, 29>>, TRUE, TRUE,
                FALSE)>> }

InitDash ==
    /\ InitSaveIdle /\ InitViewIdle /\ InitUserIdle
    /\ profiles \in {BaseProfiles, PayrollProfiles}
    /\ \/ cost_model = TRUE /\ costs \in DashCostTables
       \/ cost_model = FALSE /\ costs = <<>>
    /\ expenses \in {{}, {ExpenseRow(1, 150, <<2024, 1, 1>>, NoDate, TRUE)}}
    /\ contractor_expenses \in {{}, {ContractorRow(1, 2024, 2, 500)}}
    /\ costcall = NoCostCall
    /\ projects \in DashProjectTables
    /\ ledger \in DashLedgerTables
    /\ chart = NoChart
    /\ annual = NoAnnual
    /\ dash = NoDash
    /\ chart_exc = NoChartExc

NextDash == Dashboard \/ RevenueChartDataRaising

SpecDash == InitDash /\ [][NextDash]_vars

\* Members are removed from projects, one request at a time.
InitMember ==
    /\ variant = "admin"
    /\ profiles = BaseProfiles
    /\ total_hours = [p \in Projects |-> Hours(20)]
    /\ allocs \in ViewTables \cup {SetToBag(ViewRows)}
    /\ req = [h \in Handlers |-> IdleReq]
    /\ seen = NoSeen
    /\ InitViewIdle /\ InitUserIdle /\ InitCostIdle /\ InitRevIdle

NextMember == RemoveMemberView

SpecMember == InitMember /\ [][NextMember]_vars

\* One session: its user switches views and opens the dashboards.
InitSession ==
    /\ variant = "admin"
    /\ profiles = BaseProfiles
    /\ total_hours = [p \in Projects |-> Hours(20)]
    /\ allocs \in {SetToBag(UserRows), SetToBag(ViewRows)}
    /\ req = [h \in Handlers |-> IdleReq]
    /\ seen = NoSeen
    /\ InitViewIdle /\ InitCostIdle /\ InitRevIdle
    /\ removal = NoRemoval
    /\ user \in Users
    /\ session = <<>>
    /\ last = NoLast
    /\ emp = NoEmp

NextSession ==
    SwitchUserView \/ SwitchBackToAdmin \/ DashboardRouterView \/ EmployeeDashboard

SpecSession == InitSession /\ [][NextSession]_vars

-----------------------------------------------------------------------------
(* Properties of the save *)

\* C1: submitting the same batch for the same project again leaves the
\* project with exactly the rows the first submission left: every run of a
\* request ends with the same bag of rows as its first run, whatever rows the
\* table held before.
C1_SaveIdempotent ==
    \A h \in Handlers :
        \A k \in 1..Len(req[h].results) : req[h].results[k] = req[h].results[1]

\* A batch of two entries was saved twice over a project that held another
\* row, and both runs left the same non-empty rows.
C1_Witness ==
    /\ req[1].pc = "done"
    /\ Len(req[1].results) = 2
    /\ Len(req[1].batch) = 2
    /\ req[1].results[2] # EmptyBag
    /\ req[1].project = 1
    /\ OldRow2 \in DOMAIN allocs
    /\ OldRow1 \notin DOMAIN allocs

\* C2: a read of a project's rows made while one save of that project runs
\* returns the complete rows from before the save or the complete rows after
\* it.
C2_ReaderSeesWholeSet ==
    \A h \in Handlers :
        (seen.during = {h} /\ seen.touched = {h})
            => seen.rows \in {req[h].before, SaveAlone(seen.project, req[h].batch)}

\* C3: when two saves of the same project have both answered, the project's
\* rows are what one of the two batches leaves when saved alone.
C3_ConcurrentSavesSerialized ==
    (/\ \A h \in Handlers : req[h].pc = "done"
     /\ req[1].project = req[2].project)
        => ProjRows(allocs, req[1].project)
               \in {SaveAlone(req[1].project, req[1].batch),
                    SaveAlone(req[2].project, req[2].batch)}

\* C4: a save of one entry with a known member id and one entry with an
\* unknown member id creates the known member's row, answers success, and
\* its response reports exactly one row-level error.
KnownUnknownBatches ==
    { <<EKnown1, EUnknown>>, <<EUnknown, EKnown1>>,
      <<EKnown2, EUnknown>>, <<EUnknown, EKnown2>> }

C4_PartialSuccessReported ==
    \A h \in Handlers :
        (req[h].pc = "done" /\ req[h].batch \in KnownUnknownBatches)
            => /\ \E r \in DOMAIN ProjRows(allocs, req[h].project) :
                      r.user_profile \in {1, 2}
               /\ req[h].resp.body.status = "success"
               /\ "errors" \in DOMAIN req[h].resp.body
               /\ Len(req[h].resp.body.errors) = 1

-----------------------------------------------------------------------------
(* Properties of the cost aggregator *)

StructuredExist(y, m) == \E i \in 1..Len(costs) : CostActive(costs[i], y, m)

LegacyExist(y, m) ==
    \/ \E e \in expenses : ExpenseActive(e, y, m)
    \/ \E e \in contractor_expenses :
           e.company = Company /\ e.year = y /\ e.month = m

\* C5: the total never counts both cost sources: when structured Cost rows
\* and legacy rows both exist for the month, legacy amounts are never added
\* on top of structured amounts, on every path through the function, also
\* when reading the Cost rows fails after some were added.
C5_NeverDoubleCounts ==
    (/\ costcall.year # 0
     /\ StructuredExist(costcall.year, costcall.month)
     /\ LegacyExist(costcall.year, costcall.month))
        => ~(costcall.structured # 0 /\ costcall.legacy # 0)

-----------------------------------------------------------------------------
(* Properties of the revenue views *)

\* The type a project's revenue is booked under
ShareType(p) == IF p.revenue_type = "forecast" THEN "forecast" ELSE "booked"

\* Whole-month span of a project and whether it covers month m of year y
SpanMonths(p) ==
    (p.end_date[1] - p.start_date[1]) * 12 + p.end_date[2] - p.start_date[2] + 1

Covers(p, y, m) ==
    /\ p.start_date[1] * 12 + p.start_date[2] <= y * 12 + m
    /\ y * 12 + m <= p.end_date[1] * 12 + p.end_date[2]

\* total_revenue / span for the months the project covers, else 0
Share(p, y, m, t) ==
    IF Covers(p, y, m) /\ t = ShareType(p)
    THEN RDiv(Rat(p.total_revenue), Rat(SpanMonths(p)))
    ELSE Rat(0)

RECURSIVE SumShares(_, _, _, _)
SumShares(ps, y, m, t) ==
    IF ps = {} THEN Rat(0)
    ELSE LET p == CHOOSE x \in ps : TRUE
         IN  RAdd(Share(p, y, m, t), SumShares(ps \ {p}, y, m, t))

ChartBucket(m, t) == IF t = "booked" THEN chart.booked[m] ELSE chart.forecast[m]

LedgerHasYear(y) == \E r \in ledger : r.company = Company /\ r.year = y

\* What project p added to bucket (m, t) of the chart: the bucket minus the
\* bucket of the same tables without p
AddedBy(p, m, t) ==
    RSub(ChartBucket(m, t),
         AddProjects(LedgerData(chart.year), CompanyProjects \ {p}, chart.year)[m][t])

IsNumber(x) == x \in Int \X (Nat \ {0})

NonNegativeAmounts ==
    /\ \A r \in ledger : r.company = Company => r.revenue >= 0
    /\ \A p \in CompanyProjects : p.total_revenue >= 0

\* C6 as the specification states it: 12 booked and 12 forecast entries, each a number >= 0,
\* whatever the ledger and the project table hold.
C6_BucketsNonNegative ==
    chart.year # 0 =>
        /\ Len(chart.booked) = 12
        /\ Len(chart.forecast) = 12
        /\ \A m \in Months :
               /\ IsNumber(chart.booked[m]) /\ RLeq(Rat(0), chart.booked[m])
               /\ IsNumber(chart.forecast[m]) /\ RLeq(Rat(0), chart.forecast[m])

\* C6 amended: 12 booked and 12 forecast entries, one per month, each a
\* number and never null; each is >= 0 when no revenue of the ledger and no
\* total_revenue of a project of the company is negative.
C6_TwelveBuckets ==
    chart.year # 0 =>
        /\ Len(chart.booked) = 12
        /\ Len(chart.forecast) = 12
        /\ \A m \in Months : IsNumber(chart.booked[m]) /\ IsNumber(chart.forecast[m])
        /\ NonNegativeAmounts =>
               \A m \in Months : /\ RLeq(Rat(0), chart.booked[m])
                                 /\ RLeq(Rat(0), chart.forecast[m])

\* The chart of a year whose ledger and projects both contribute,
\* none of them negative.
C6_Witness ==
    /\ chart.year = 2024
    /\ NonNegativeAmounts
    /\ LedgerHasYear(2024)
    /\ Cardinality(CompanyProjects) = 2
    /\ \E m \in Months : RLt(Rat(0), chart.forecast[m])
    /\ \E m \in Months : RLt(Rat(0), chart.booked[m])

WithinYear(p, y) ==
    /\ p.start_date[1] = y /\ p.end_date[1] = y
    /\ DateLeq(p.start_date, p.end_date)

\* C7: with no ledger rows for the year, a project whose n calendar months
\* all lie in the query year adds total_revenue / n to its type's bucket of
\* each of those months and nothing to any other bucket.
C7_WholeMonthProration ==
    (chart.year # 0 /\ ~LedgerHasYear(chart.year)) =>
        \A p \in CompanyProjects :
            WithinYear(p, chart.year) =>
                LET n == p.end_date[2] - p.start_date[2] + 1
                IN  \A m \in Months, t \in {"booked", "forecast"} :
                        AddedBy(p, m, t) =
                            IF p.start_date[2] <= m /\ m <= p.end_date[2]
                               /\ t = ShareType(p)
                            THEN RDiv(Rat(p.total_revenue), Rat(n))
                            ELSE Rat(0)

\* 3000 booked over January to March 2024 and 1000 forecast over May and
\* June 2024: 1000 to months 1..3, 500 to months 5 and 6, 0 elsewhere.
C7_Witness ==
    /\ chart.year = 2024
    /\ ledger = {}
    /\ projects = { Proj(1, <<2024, 1, 1>>, <<2024, 3, 31>>, 3000, "booked"),
                    Proj(1, <<2024, 5, 10>>, <<2024, 6, 20>>, 1000, "forecast") }
    /\ \A m \in Months :
           /\ chart.booked[m] = IF m <= 3 THEN Rat(1000) ELSE Rat(0)
           /\ chart.forecast[m] = IF m \in {5, 6} THEN Rat(500) ELSE Rat(0)

\* C8: with no ledger rows for the year, a project with start_date = end_date
\* adds its whole total_revenue to the bucket of that date's month in that
\* date's year, and 0 to every other bucket of every query year.
C8_SingleDayProject ==
    (chart.year # 0 /\ ~LedgerHasYear(chart.year)) =>
        \A p \in CompanyProjects :
            p.start_date = p.end_date =>
                \A m \in Months, t \in {"booked", "forecast"} :
                    AddedBy(p, m, t) =
                        IF chart.year = p.start_date[1] /\ m = p.start_date[2]
                           /\ t = ShareType(p)
                        THEN Rat(p.total_revenue)
                        ELSE Rat(0)

\* The project of 2024-02-29 alone: 700 in February 2024 and 0 elsewhere.
C8_Witness ==
    /\ chart.year = 2024
    /\ ledger = {}
    /\ projects = { Proj(1, <<2024, 2, 29>>, <<2024, 2, 29>>, 700, "booked") }
    /\ \A m \in Months :
           /\ chart.booked[m] = IF m = 2 THEN Rat(700) ELSE Rat(0)
           /\ chart.forecast[m] = Rat(0)

\* C9 as the specification states it: when the ledger has a row for the year, every bucket of
\* the chart is the ledger's sum for that month and type, with no
\* project-derived amount.
C9_LedgerAuthoritative ==
    (chart.year # 0 /\ LedgerHasYear(chart.year)) =>
        \A m \in Months, t \in {"booked", "forecast"} :
            ChartBucket(m, t) = Rat(LedgerTotal(chart.year, m, t))

\* C9 amended: when the ledger has a row for the year, every bucket of the
\* chart is the ledger's sum for that month and type plus total_revenue /
\* span of every project of the company that covers the month; the
\* dashboard's annual revenue is the ledger's sums alone when the ledger's
\* booked or forecast sum of the year is positive.
C9_LedgerPlusProjects ==
    /\ (chart.year # 0 /\ LedgerHasYear(chart.year)) =>
           \A m \in Months, t \in {"booked", "forecast"} :
               ChartBucket(m, t) =
                   RAdd(Rat(LedgerTotal(chart.year, m, t)),
                        SumShares(CompanyProjects, chart.year, m, t))
    /\ (/\ annual.year # 0
        /\ \/ LedgerYearTotal(annual.year, "booked") > 0
           \/ LedgerYearTotal(annual.year, "forecast") > 0) =>
           /\ annual.booked = Rat(LedgerYearTotal(annual.year, "booked"))
           /\ annual.forecast = Rat(LedgerYearTotal(annual.year, "forecast"))

\* A year with ledger rows and a project: the January bucket holds both,
\* and the dashboard took the ledger alone.
C9_Witness ==
    /\ chart.year = 2024
    /\ annual.year = 2024
    /\ annual.source = "ledger"
    /\ LedgerTotal(2024, 1, "booked") = 500
    /\ chart.booked[1] = Rat(1500)
    /\ annual.booked = Rat(500)

-----------------------------------------------------------------------------
(* Properties of the utilization views *)

RECURSIVE HoursOf(_, _)
HoursOf(rows, p) ==
    IF rows = {} THEN 0
    ELSE LET r == CHOOSE x \in rows : TRUE
         IN  (IF r.project = p THEN r.allocated_hours * CopiesIn(r, allocs) ELSE 0)
             + HoursOf(rows \ {r}, p)

-----------------------------------------------------------------------------
(* Properties of the rows a save leaves *)

RowKey(r) == <<r.user_profile, r.year, r.month, r.week>>

\* The entries of a body that ask for a row: a member, a year and a month,
\* every number parseable, and no is_pm key
Wellformed(e) ==
    /\ e.is_pm = "absent"
    /\ e.member_id # 0
    /\ ~Raises(e.year) /\ ~Raises(e.month) /\ ~Raises(e.hours) /\ ~Raises(e.week)
    /\ Parse(e.year) # 0 /\ Parse(e.month) # 0

EntryKey(e) == <<e.member_id, Parse(e.year), Parse(e.month), Parse(e.week)>>

RECURSIVE KeyHours(_, _)
KeyHours(batch, key) ==
    IF batch = <<>> THEN 0
    ELSE (IF Wellformed(Head(batch)) /\ EntryKey(Head(batch)) = key
          THEN Parse(Head(batch).hours) ELSE 0)
         + KeyHours(Tail(batch), key)

KeyCount(batch, key) ==
    Cardinality({i \in 1..Len(batch) :
                    Wellformed(batch[i]) /\ EntryKey(batch[i]) = key})

Malformed(e) ==
    e.is_pm = "absent"
    /\ (Raises(e.year) \/ Raises(e.month) \/ Raises(e.hours) \/ Raises(e.week))

\* C11: after a save, the project holds at most one row per (user_profile,
\* year, month, week), and the row of a key that occurs several times in
\* the body carries the sum of the hours of those entries.
C11_OneRowPerKey ==
    \A h \in Handlers :
        (req[h].pc = "done" /\ req[h].resp.body.status = "success") =>
            LET rows == ProjRows(allocs, req[h].project)
            IN  /\ \A r \in DOMAIN rows : rows[r] = 1
                /\ \A r1, r2 \in DOMAIN rows : RowKey(r1) = RowKey(r2) => r1 = r2
                /\ \A r \in DOMAIN rows :
                       KeyCount(req[h].batch, RowKey(r)) > 1 =>
                           r.allocated_hours = KeyHours(req[h].batch, RowKey(r))

\* C12: an entry with an unparseable year, month, week or hours does not
\* abort the save: the response is a success response and every other
\* well-formed entry of a known member has its row.
C12_MalformedEntryIsRowError ==
    \A h \in Handlers :
        (/\ req[h].pc = "done"
         /\ \E i \in 1..Len(req[h].batch) : Malformed(req[h].batch[i])) =>
            /\ req[h].resp.body.status = "success"
            /\ \A i \in 1..Len(req[h].batch) :
                   LET e == req[h].batch[i]
                   IN  (Wellformed(e) /\ KnownMember(e.member_id)) =>
                           \E r \in DOMAIN ProjRows(allocs, req[h].project) :
                               r.user_profile = e.member_id
                               /\ r.year = Parse(e.year)
                               /\ r.month = Parse(e.month)

\* C18: a save that ends with an error response leaves the project's rows
\* exactly as they were before the call.
C18_ErrorRollsBack ==
    \A h \in Handlers :
        (req[h].pc = "done" /\ req[h].resp.body.status = "error") =>
            ProjRows(allocs, req[h].project) = req[h].before

\* The member_id of the first entry of a body with a true is_pm, 0 if none
FirstPm(batch) ==
    LET idx == {i \in 1..Len(batch) : batch[i].is_pm = "true"}
    IN  IF idx = {} THEN 0
        ELSE batch[CHOOSE i \in idx : \A j \in idx : i <= j].member_id

\* C19: after a save by ProjectAdmin.save_allocations_view, the rows created
\* for the member of the first entry with a true is_pm carry
\* is_project_manager, and the rows of every other member do not.
C19_FirstPmWins ==
    (variant = "admin" /\ req[1].pc = "done") =>
        \A r \in DOMAIN ProjRows(allocs, req[1].project) :
            r.is_project_manager <=> (r.user_profile = FirstPm(req[1].batch))

\* Two entries name a manager, member 2 first; member 2's row carries the
\* flag and member 1's does not.
C19_Witness ==
    /\ variant = "admin"
    /\ req[1].pc = "done"
    /\ req[1].batch = <<EPm2, EKnown1, EKnown2>>
    /\ \E r \in DOMAIN ProjRows(allocs, req[1].project) :
           r.user_profile = 2 /\ r.is_project_manager
    /\ \E r \in DOMAIN ProjRows(allocs, req[1].project) :
           r.user_profile = 1 /\ ~r.is_project_manager

-----------------------------------------------------------------------------
(* Properties of the two cost paths *)

\* Months counted from year 0
Ym(d) == d[1] * 12 + d[2]

\* The first day of month (y, m) lies in the optional window of profile u
CoversFirstDay(u, y, m) ==
    /\ \/ u.start_date = NoDate
       \/ Ym(u.start_date) < y * 12 + m
       \/ (Ym(u.start_date) = y * 12 + m /\ u.start_date[3] = 1)
    /\ (u.end_date = NoDate \/ Ym(u.end_date) >= y * 12 + m)

ExpectedPayroll(y, m) ==
    SumField({u \in profiles : /\ u.company = Company
                               /\ u.status \in {"full_time", "part_time"}
                               /\ CoversFirstDay(u, y, m)},
             "monthly_salary_cost")

\* Row r starts by the end of month (y, m) and does not end before it
OverlapsMonth(r, y, m) ==
    /\ r.start_date # NoDate
    /\ Ym(r.start_date) <= y * 12 + m
    /\ (r.end_date = NoDate \/ Ym(r.end_date) >= y * 12 + m)

ExpectedLegacy(y, m) ==
    SumField({e \in expenses : e.company = Company /\ e.is_active
                               /\ OverlapsMonth(e, y, m)}, "monthly_amount")
    + SumField({e \in contractor_expenses : e.company = Company /\ e.year = y
                                            /\ e.month = m}, "amount")

Counted(c, y, m) ==
    /\ c.company = Company /\ c.is_active /\ c.cost_type # "payroll"
    /\ OverlapsMonth(c, y, m)

RECURSIVE ExpectedStructured(_, _, _)
ExpectedStructured(rows, y, m) ==
    IF rows = <<>> THEN 0
    ELSE (IF Counted(Head(rows), y, m) THEN Head(rows).monthly_amount ELSE 0)
         + ExpectedStructured(Tail(rows), y, m)

\* C13: when the Cost table cannot be queried, the function returns payroll
\* plus the active legacy Expense rows of the company that overlap the month
\* plus the ContractorExpense rows of the company of exactly that year and
\* month.
C13_LegacyFallback ==
    (costcall.year # 0 /\ ~cost_model) =>
        costcall.total = ExpectedPayroll(costcall.year, costcall.month)
                         + ExpectedLegacy(costcall.year, costcall.month)

\* February 2024 without the Cost table: payroll of two members, the
\* expense of 10 to 20 February and the contractor expense of the month.
C13_Witness ==
    /\ ~cost_model
    /\ costcall.year = 2024 /\ costcall.month = 2
    /\ costcall.payroll = 8000
    /\ costcall.total = 8560

\* C20: when the Cost rows can be read, the function returns the payroll of
\* the company's full_time and part_time members whose window covers the
\* first day of the month, plus monthly_amount of the company's active Cost
\* rows that start by the last day of the month, do not end before its
\* first day and are not of cost_type payroll.
C20_StructuredTotal ==
    (/\ costcall.year # 0
     /\ cost_model
     /\ \A i \in 1..Len(costs) :
            Counted(costs[i], costcall.year, costcall.month) => ~costs[i].raises) =>
        costcall.total = ExpectedPayroll(costcall.year, costcall.month)
                         + ExpectedStructured(costs, costcall.year, costcall.month)

\* February 2024 with rent and the software cost that starts on the 15th,
\* while a legacy expense exists: 8000 + 300 + 200.
C20_Witness ==
    /\ cost_model
    /\ costcall.year = 2024 /\ costcall.month = 2
    /\ expenses # {}
    /\ Len(costs) = 2
    /\ costcall.payroll = 8000
    /\ costcall.total = 8500

-----------------------------------------------------------------------------
(* Properties of a project's share of the year *)

\* C14: a project adds nothing to a month bucket of the query year that lies
\* outside its own range of months: nothing to any of the 12 buckets when it
\* does not overlap the year, and nothing to the months before its start or
\* after its end when it overlaps the year in part.
C14_NothingOutsideRange ==
    chart.year # 0 =>
        \A p \in CompanyProjects :
            \A m \in Months, t \in {"booked", "forecast"} :
                ~Covers(p, chart.year, m) => AddedBy(p, m, t) = Rat(0)

\* 2024 with a project of November 2023 to February 2024 and a project of
\* 2025: 250 in January and February, nothing in any other bucket.
C14_Witness ==
    /\ chart.year = 2024
    /\ ledger = {}
    /\ projects = { Proj(1, <<2023, 11, 15>>, <<2024, 2, 10>>, 1000, "forecast"),
                    Proj(1, <<2025, 3, 1>>, <<2025, 12, 31>>, 1200, "") }
    /\ \A m \in Months :
           /\ chart.forecast[m] = IF m <= 2 THEN Rat(250) ELSE Rat(0)
           /\ chart.booked[m] = Rat(0)

OtherType(p) == p.revenue_type \notin {"booked", "forecast"}

\* C15: a project whose revenue_type is neither 'booked' nor 'forecast' is
\* counted as booked: its monthly amounts go to the booked buckets of the
\* chart and none to forecast, and when the dashboard derives the annual
\* revenue from projects its share of the year goes to the booked total and
\* none to the forecast total.
C15_DefaultsToBooked ==
    \A p \in CompanyProjects :
        OtherType(p) =>
            /\ chart.year # 0 =>
                   \A m \in Months :
                       /\ AddedBy(p, m, "forecast") = Rat(0)
                       /\ AddedBy(p, m, "booked") =
                              IF Covers(p, chart.year, m)
                              THEN RDiv(Rat(p.total_revenue), Rat(SpanMonths(p)))
                              ELSE Rat(0)
            /\ (annual.year # 0 /\ annual.source = "projects") =>
                   /\ annual.forecast =
                          SumYearRevenue({q \in CompanyProjects \ {p} :
                                             q.revenue_type = "forecast"},
                                         annual.year)
                   /\ RSub(annual.booked,
                           SumYearRevenue({q \in CompanyProjects \ {p} :
                                              q.revenue_type # "forecast"},
                                          annual.year))
                          = YearRevenue(p, annual.year)

\* 2025 with the project of March to December 2025 whose revenue_type is
\* empty: 120 booked in each of its months, 1200 booked in the year.
C15_Witness ==
    /\ chart.year = 2025
    /\ annual.year = 2025
    /\ annual.source = "projects"
    /\ projects = { Proj(1, <<2025, 3, 1>>, <<2025, 12, 31>>, 1200, "") }
    /\ \A m \in Months :
           /\ chart.booked[m] = IF m >= 3 THEN Rat(120) ELSE Rat(0)
           /\ chart.forecast[m] = Rat(0)
    /\ annual.booked = Rat(1200)
    /\ annual.forecast = Rat(0)

-----------------------------------------------------------------------------
(* Properties of the dashboard *)

AllZero(list) == \A i \in 1..12 : list[i] = Rat(0)

\* C16: when an exception is raised inside a dashboard computation, the view
\* does not raise: it returns a result with every figure zero and an error
\* marker, wherever in dashboard the exception occurs, and in
\* revenue_chart_data too.
C16_ExceptionGivesZeroedResult ==
    /\ dash.outcome \notin {"none", "context"} =>
           /\ dash.outcome = "fallback"
           /\ dash.error
           /\ dash.current_revenue = Rat(0)
           /\ dash.total_annual_revenue = Rat(0)
           /\ dash.current_month_costs = Rat(0)
           /\ dash.monthly_profit = Rat(0)
    /\ chart_exc.fail # "none" =>
           /\ "error" \in DOMAIN chart_exc.response
           /\ AllZero(chart_exc.response.booked)
           /\ AllZero(chart_exc.response.forecast)
           /\ AllZero(chart_exc.response.expenses)

\* C17 as the specification states it: monthly_profit is revenue minus cost,
\* annual_profit likewise, and each margin is profit / revenue * 100, with 0
\* only when its revenue is 0.
C17_ProfitAndMargin ==
    dash.outcome = "context" =>
        /\ dash.monthly_profit = RSub(dash.current_revenue, dash.current_month_costs)
        /\ dash.annual_profit =
               RSub(dash.total_annual_revenue, dash.total_annual_costs)
        /\ IF dash.current_revenue = Rat(0)
           THEN dash.monthly_profit_margin = Rat(0)
           ELSE RMul(dash.monthly_profit_margin, dash.current_revenue)
                    = RMul(dash.monthly_profit, Rat(100))
        /\ IF dash.total_annual_revenue = Rat(0)
           THEN dash.annual_profit_margin = Rat(0)
           ELSE RMul(dash.annual_profit_margin, dash.total_annual_revenue)
                    = RMul(dash.annual_profit, Rat(100))

\* C17 amended: monthly_profit is current-month revenue minus current-month
\* cost and annual_profit is total annual revenue minus total annual costs;
\* each margin is profit / revenue * 100 when its revenue is greater than 0
\* and 0 when its revenue is 0 or negative.
C17_ProfitAndPositiveMargin ==
    dash.outcome = "context" =>
        /\ RAdd(dash.monthly_profit, dash.current_month_costs) = dash.current_revenue
        /\ RAdd(dash.annual_profit, dash.total_annual_costs)
               = dash.total_annual_revenue
        /\ IF RLt(Rat(0), dash.current_revenue)
           THEN RMul(dash.monthly_profit_margin, dash.current_revenue)
                    = RMul(dash.monthly_profit, Rat(100))
           ELSE dash.monthly_profit_margin = Rat(0)
        /\ IF RLt(Rat(0), dash.total_annual_revenue)
           THEN RMul(dash.annual_profit_margin, dash.total_annual_revenue)
                    = RMul(dash.annual_profit, Rat(100))
           ELSE dash.annual_profit_margin = Rat(0)

\* January 2024 with 500 booked in the ledger and costs of 5700: a loss of
\* 5200, a margin of -1040.
C17_Witness ==
    /\ dash.outcome = "context"
    /\ dash.year = 2024 /\ dash.month = 1
    /\ dash.current_revenue = Rat(500)
    /\ dash.current_month_costs = Rat(5700)
    /\ dash.monthly_profit = Rat(-5200)
    /\ dash.monthly_profit_margin = Rat(-1040)
    /\ dash.total_annual_revenue = Rat(500)
    /\ dash.annual_profit = Rat(500 - 12 * 5700)

-----------------------------------------------------------------------------
(* The dashboard's cost against the cost aggregator *)

\* C21: the current-month cost that dashboard subtracts from revenue equals
\* calculate_monthly_operating_costs(company, current year, current month),
\* whatever the UserProfile, Cost, Expense and ContractorExpense rows are.
C21_DashboardCostIsAggregatorCost ==
    dash.outcome = "context" =>
        /\ dash.monthly_profit = RSub(dash.current_revenue, dash.current_month_costs)
        /\ dash.current_month_costs
               = Rat(OperatingCosts(dash.year, dash.month).total)

-----------------------------------------------------------------------------
(* One pro-ration convention; conservation; no synthesized figures *)

SumList(list) == RSumSeq([i \in 1..12 |-> list[i]])

\* C22: with no ledger rows, the annual revenue dashboard attributes to the
\* projects of a year equals the sum of the 12 monthly amounts that
\* revenue_chart_data attributes to them for that year, per revenue type.
C22_OneProrationConvention ==
    (ledger = {} /\ chart.year # 0 /\ annual.year = chart.year) =>
        /\ annual.booked = SumList(chart.booked)
        /\ annual.forecast = SumList(chart.forecast)
        /\ annual.total = SumList(chart.combined)

RECURSIVE SumRevenue(_)
SumRevenue(ps) ==
    IF ps = {} THEN 0
    ELSE LET p == CHOOSE x \in ps : TRUE IN p.total_revenue + SumRevenue(ps \ {p})

\* What revenue_chart_data adds over the 12 months of a year
YearOfChart(year) ==
    RSumSeq([i \in 1..12 |-> RAdd(ChartData(year)[i].booked,
                                  ChartData(year)[i].forecast)])

RECURSIVE SumOtherYears(_)
SumOtherYears(ys) ==
    IF ys = {} THEN Rat(0)
    ELSE LET y == CHOOSE x \in ys : TRUE
         IN  RAdd(YearOfChart(y), SumOtherYears(ys \ {y}))

\* C23: with no ledger rows and start_date <= end_date, the amounts that
\* revenue_chart_data adds for the projects, summed over the 12 months of
\* every year they touch, give exactly their total_revenue.
C23_RevenueConserved ==
    (ledger = {} /\ chart.year # 0
     /\ \A p \in CompanyProjects : DateLeq(p.start_date, p.end_date)) =>
        RAdd(SumList(chart.combined), SumOtherYears(Years \ {chart.year}))
            = Rat(SumRevenue(CompanyProjects))

\* The chart of 2024 for a project from 2023-11-15 to 2024-02-10 worth 1000:
\* 250 in January and in February, the other 500 in 2023.
C23_Witness ==
    /\ ledger = {}
    /\ chart.year = 2024
    /\ projects = {Proj(1, <<2023, 11, 15>>, <<2024, 2, 10>>, 1000, "forecast")}
    /\ SumList(chart.combined) = Rat(500)
    /\ chart.forecast[1] = Rat(250) /\ chart.forecast[2] = Rat(250)
    /\ YearOfChart(2023) = Rat(500)

NoLedgerRows(y) == ~\E r \in ledger : r.company = Company /\ r.year = y

NoProjectIn(y) ==
    \A p \in CompanyProjects : p.end_date[1] < y \/ p.start_date[1] > y

\* C24: when the ledger has no rows for the year and no project overlaps the
\* year, every booked, forecast and combined bucket of revenue_chart_data
\* is exactly 0.
C24_NoSynthesizedRevenue ==
    (chart.year # 0 /\ NoLedgerRows(chart.year) /\ NoProjectIn(chart.year)) =>
        \A i \in 1..12 :
            /\ chart.booked[i] = Rat(0)
            /\ chart.forecast[i] = Rat(0)
            /\ chart.combined[i] = Rat(0)

\* The chart of 2023 when the only project and the only ledger row are of 2024
C24_Witness ==
    /\ chart.year = 2023
    /\ projects = {Proj(1, <<2024, 1, 1>>, <<2024, 3, 31>>, 3000, "booked")}
    /\ ledger = {LedgerRow(1, 2024, 1, "booked", 400)}
    /\ SumList(chart.combined) = Rat(0)

-----------------------------------------------------------------------------
(* What a save and a member removal leave alone *)

\* C25: a save of allocations for project P changes only P's rows: every
\* step of the save leaves the ProjectAllocation rows of every other project
\* and all UserProfile and Project rows as they were, whether the save ends
\* in success or in error.
C25_SaveChangesOnlyItsProject ==
    [][/\ profiles' = profiles
       /\ total_hours' = total_hours
       /\ projects' = projects
       /\ \A q \in Projects :
              (\A h \in Handlers : req'[h].project # q) =>
                  ProjRows(allocs', q) = ProjRows(allocs, q)]_vars

\* A save for project 1 has answered, project 1's rows were replaced and
\* project 2 still holds its row.
C25_Witness ==
    /\ req[1].pc = "done"
    /\ req[1].project = 1
    /\ req[1].before = SetToBag({OldRow1})
    /\ ProjRows(allocs, 1) # req[1].before
    /\ ProjRows(allocs, 2) = SetToBag({OldRow2})

\* C26: every ProjectAllocation row created by a save ties the project to a
\* UserProfile of the project's own company: a member id of another company
\* never produces a row on the project.
C26_RowsOfOwnCompany ==
    \A r \in DOMAIN allocs :
        \A u \in profiles : u.id = r.user_profile => u.company = Company

\* Copies of row r in a table
Copies(table, r) == IF r \in DOMAIN table THEN table[r] ELSE 0

\* C27: a successful remove_member_view(project, member) leaves no
\* ProjectAllocation row of that member on that project, and leaves the rows
\* of other members on the project and of that member on other projects as
\* they were.
C27_RemoveMemberFrame ==
    removal.http = 200 =>
        /\ \A r \in DOMAIN allocs :
               ~(r.project = removal.project /\ r.user_profile = removal.member_id)
        /\ \A r \in DOMAIN removal.before :
               ~(r.project = removal.project /\ r.user_profile = removal.member_id)
                   => Copies(allocs, r) = Copies(removal.before, r)
        /\ \A r \in DOMAIN allocs : r \in DOMAIN removal.before

\* Member 1 was removed from project 1 while member 2 had a row on project 1
\* and member 1 a row on project 2.
C27_Witness ==
    /\ removal.http = 200
    /\ removal.project = 1 /\ removal.member_id = 1
    /\ removal.before = SetToBag(ViewRows)
    /\ allocs = SetToBag({AllocRow(1, 2, 2024, 2, 0, 6, 80, FALSE),
                          AllocRow(2, 1, 2024, 1, 0, 10, 100, FALSE)})

-----------------------------------------------------------------------------
(* Viewing as another user *)

\* C28: only a superuser can view the application as another user:
\* switch_user_view called by a non-superuser answers 403 and leaves the
\* session unchanged, and get_viewing_user returns a user other than
\* request.user only when request.user is a superuser and the session holds
\* a viewing_as_user key.
C28_OnlySuperuserViewsAsOther ==
    /\ (last.op = "switch_user_view" /\ ~user.is_superuser) =>
           last.result = "403" /\ session = last.before
    /\ GetViewingUser(user, session) # user =>
           user.is_superuser /\ HasKey(session)
    /\ (emp.outcome # "none" /\ emp.viewing # user.id) => user.is_superuser

\* A user who is not a superuser asked to view as user 2, was refused, and
\* the employee dashboard still shows the user's own data.
C28_Witness ==
    /\ ~user.is_superuser
    /\ last.op = "switch_user_view" /\ last.user_id = 2 /\ last.result = "403"
    /\ session = <<>>
    /\ emp.outcome = "rendered" /\ emp.viewing = user.id

\* Whether a step is switch_user_view called by a superuser with a user_id
SuperuserSwitch ==
    /\ last'.op = "switch_user_view"
    /\ user.is_superuser
    /\ last'.user_id # 0

-----------------------------------------------------------------------------
(* The employee dashboard's upcoming allocations *)

\* Whether the month of row r is after (y, m)
After(r, y, m) == r.year > y \/ (r.year = y /\ r.month > m)

LaterRows == {r \in DOMAIN allocs : r.user_profile = emp.profile
                                    /\ After(r, emp.year, emp.month)}

Listed == {emp.upcoming[i] : i \in 1..Len(emp.upcoming)}

\* C30: the upcoming allocations of employee_dashboard are the viewed
\* user's allocations strictly after the current (year, month): every
\* listed row is later than the current month, and every allocation of the
\* user in a later month, following years included, is eligible, the 5
\* earliest by year then month being shown.
C30_UpcomingAreLaterMonths ==
    emp.outcome = "rendered" =>
        /\ \A r \in Listed : r \in LaterRows
        /\ Len(emp.upcoming) =
               (IF Cardinality(LaterRows) < 5 THEN Cardinality(LaterRows) ELSE 5)
        /\ \A r \in LaterRows \ Listed : \A l \in Listed : YmLeq(l, r)
        /\ \A i, j \in 1..Len(emp.upcoming) :
               i < j => YmLeq(emp.upcoming[i], emp.upcoming[j])

====
